---- MODULE Spec2Model ----
(***************************************************************************)
(* Object-model binding layer of rust-qemu: owning handles (qom::refs::Arc, *)
(* named Owned by qom::object), borrowed references and their casts, the   *)
(* declared static subtyping relation IsA, and instance creation through   *)
(* ObjectClassMethods::new.  The foreign runtime (object_new, object_ref,   *)
(* object_unref, object_dynamic_cast, object_get_typename, type_register)   *)
(* is declared in bindings/mod.rs as extern "C" and modelled from the       *)
(* interface the specification gives for it.                                *)
(***************************************************************************)
EXTENDS Integers, FiniteSets, Sequences

\* ------------------------------------------------------------------ bounds
MaxObjs == 1        \* instance addresses the foreign allocator can hand out
MaxHandles == 3     \* owning handles alive at the same time

\* ------------------------------------------------------------ class table
\* The Rust types that implement ObjectType.
Classes == {"Object", "DeviceState", "TestObject", "TestDevice"}

\* The classes defined in Rust with qom_define_type! / qdev_define_type!.
NativeClasses == {"TestObject", "TestDevice"}

\* ObjectType::TYPE, the foreign name of each class.
TYPE(c) ==
    CASE c = "Object"      -> "object"
      [] c = "DeviceState" -> "device"
      [] c = "TestObject"  -> "test-object"
      [] c = "TestDevice"  -> "test-device"

NoClass == "none"

\* The struct each class embeds as its first field: TypeImpl::Super for the
\* native classes, the base member for DeviceState, nothing for Object.
Super(c) ==
    CASE c = "Object"      -> NoClass
      [] c = "DeviceState" -> "Object"
      [] c = "TestObject"  -> "Object"
      [] c = "TestDevice"  -> "DeviceState"

RECURSIVE Ancestors(_)
\* c and every class reached from c through the chain of first fields.
Ancestors(c) == IF c = NoClass THEN {} ELSE {c} \cup Ancestors(Super(c))

\* --------------------------------------------------- static subtyping, IsA
\* unsafe impl<T: ObjectType> IsA<T> for T {}
IsA_blanket == {<<t, t>> : t \in Classes}

\* qom_isa!(struct, parents...): one unsafe impl IsA<parent> per parent listed.
qom_isa(struct, parents) == {<<struct, p>> : p \in parents}

\* qom_define_type!(..; @extends super, supers...) expands to
\* qom_isa!(struct, super, supers...).
qom_define_type_isa(struct, super, supers) == qom_isa(struct, {super} \cup supers)

\* A slip in qdev_define_type!: the universal root is not appended.
qdev_define_type_isa_noroot(struct, super, supers) ==
    qom_define_type_isa(struct, super, supers)

\* qdev_define_type!(..; @extends super, supers...) passes
\* "@extends super, supers..., Object" on to qom_define_type!.
qdev_define_type_isa(struct, super, supers) ==
    qom_define_type_isa(struct, super, supers \cup {"Object"})

\* Every IsA fact the repository declares: <<A, B>> for "A: IsA<B>".
IsADecl ==
    IsA_blanket
    \cup qom_isa("Object", {})
    \cup qom_isa("DeviceState", {"Object"})
    \cup qom_define_type_isa("TestObject", "Object", {})
    \cup qdev_define_type_isa("TestDevice", "DeviceState", {})


\* ------------------------------------------------------------------ values
NULL == 0
Addr == 1..MaxObjs

NoArc == [ptr |-> -1, ty |-> NoClass]
NoRef == [ptr |-> -1, ty |-> NoClass]
\* No reference is borrowed.  A borrow is [from, ref, via, mid]: the handle it
\* was taken from, the reference now in scope, how that reference was made
\* ("deref": &*handle; "upcast": one upcast of that; "roundtrip": a
\* dynamic_cast of the upcast reference back to the handle's type; "other"),
\* and the type the upcast went to.
NoBorrow == [from |-> NoArc, ref |-> NoRef, via |-> "none", mid |-> NoClass]

FreshObj == [st |-> "unalloc", type |-> "none", ref |-> 0, fin |-> 0, hook |-> 0]

\* The record of one operation: its name, for new and drop the static type ty
\* of the handle, the address ptr it acted on, whether it succeeded (ok), the
\* calls of object_ref and object_unref it made, and for a drop whether the
\* handle was the one new() had just returned (fresh).
NoLast ==
    [op |-> "none", ty |-> NoClass, ptr |-> -1, ok |-> FALSE,
     nref |-> 0, nunref |-> 0, fresh |-> FALSE]

VARIABLES
    heap,        \* foreign instances: heap[a] = [st, type, ref, fin, hook]
    type_table,  \* the runtime's registered types: [name, parent, instance_finalize]
    isa,         \* the IsA facts in force: <<A, B>> for "A: IsA<B>"
    arcs,        \* owning handles: arcs[v] = how many live handles have the value v
    borrow,      \* the borrowed reference in scope: [from, ref, via, mid]
    last,        \* what the last operation did
    crashed,     \* the process was stopped (abort, or a fault on a null address)
    layout,      \* a with_offsets! expansion: [fields, offset_to, END_OF_PREV_FIELD]
    fgn,         \* a value on its way through util::foreign: [pc, val, own, mem, out, depth]
    ebr,         \* the error bridge: [errs, slot, res, src, own, out, fault]
    cls,         \* class structs and virtual calls: [impl, fimpl, klass, disp]
    tyd,         \* a native type, its property and one instance of it
    thr          \* threads that own handles: thr[t] = [own, pc]

\* The variables of the utility modules (util::offset_of, util::foreign,
\* util::error) and of class construction (qom::object_impl,
\* hw::core::device_impl).
xvars == <<layout, fgn, ebr, cls, tyd, thr>>

vars == <<heap, type_table, isa, arcs, borrow, last, crashed, xvars>>

\* No with_offsets! expansion is under way.
NoLayout == [fields |-> <<>>, offset_to |-> <<>>, END_OF_PREV_FIELD |-> 0]

\* A native value that is no value, and a C buffer that was never allocated.
NoVal == [kind |-> "none", some |-> FALSE, s |-> <<>>]
NoMem == [st |-> "unalloc", bytes |-> <<>>, nfree |-> 0]

\* Option<T>: Some(v) and None.
Some(v) == [some |-> TRUE, v |-> v]
None == [some |-> FALSE, v |-> <<>>]

\* No conversion is under way.  own is the pointer in the OwnedPointer<ty>
\* (or the raw pointer once into_inner gave it out), ptr the pointer as_ptr
\* or as_mut_ptr returned last, ncopy whether cloned_from_foreign has made a
\* native copy of the buffer, oout the Option a conversion to Option<String>
\* returned.
NoFgn ==
    [pc |-> "idle", val |-> NoVal, own |-> -1, mem |-> NoMem, out |-> <<>>,
     depth |-> 0, ty |-> "none", ptr |-> -1, ncopy |-> 0, oout |-> None]

MaxErrs == 2        \* foreign error objects the runtime can create

ErrAddr == 1..MaxErrs


\* Error::default(): no message, no cause, no location.
NoError == [msg |-> None, cause |-> None, location |-> None]

\* A foreign error object that was never created.
NoForeignError == [st |-> "unalloc", msg |-> <<>>, nfree |-> 0]

\* No call of the error bridge has been made: res is [op, ret, nf], the
\* function called, what it returned and how often it called f.
NoRes == [op |-> "none", ret |-> "none", nf |-> 0]

\* The error bridge before its first use: no foreign error exists, the
\* caller's error slot holds null, nothing is being converted.
NoEbr ==
    [errs |-> [a \in ErrAddr |-> NoForeignError], slot |-> NULL, res |-> NoRes,
     src |-> NoError, own |-> -1, out |-> NoError, fault |-> FALSE]

\* The overridable operations: unparent of ObjectClass; realize, unrealize
\* and cold_reset of DeviceClass.
Ops == {"unparent", "realize", "unrealize", "cold_reset"}

\* A class struct as the runtime allocates it: every slot empty, no property
\* table.  A slot holds "none", "foreign" (an implementation on the foreign
\* side) or the class T whose trampoline rust_<op>::<T> it points to.
EmptyClass ==
    [unparent |-> "none", realize |-> "none", unrealize |-> "none",
     cold_reset |-> "none", properties |-> "none"]

\* The record of a virtual call: the method called, the instance, the
\* implementation the runtime dispatched to ("none", "foreign" or a native
\* class), how often the native override ran and on which address, whether
\* the foreign call stored an error and with which message, and the result
\* (ret, and msg for an Err).
NoDisp ==
    [op |-> "none", ptr |-> -1, ran |-> "none", n |-> 0, self |-> -1,
     stored |-> FALSE, smsg |-> <<>>, ret |-> "none", msg |-> <<>>,
     want |-> <<>>, nfree |-> 0]

\* The overrides the classes of tests/main.rs declare: none for TestObject;
\* UNPARENT, REALIZE and UNREALIZE for TestDevice.
DeclaredImpl ==
    [T \in NativeClasses |->
        IF T = "TestDevice" THEN {"unparent", "realize", "unrealize"} ELSE {}]

\* No native class has been initialised.
NoCls ==
    [impl |-> DeclaredImpl, fimpl |-> {},
     klass |-> [c \in Classes |-> EmptyClass], disp |-> NoDisp]

\* No native type is being defined.  A type definition is the class T, the
\* fields of its conf struct with their ConstDefault::DEFAULT values, its
\* state type, and one qdev_prop! on the conf field number field with the
\* default expression arg; props are the Property descriptors built from it
\* ([offset, default]).  mem is the conf and state of one instance (<<>> and
\* "uninit" before instance_mem_init) and drops counts how often each member
\* of the instance has been torn down.
NoTyd ==
    [pc |-> "idle", T |-> NoClass, conf |-> <<>>, DEFAULT |-> <<>>,
     state |-> [size |-> 0, align |-> 1], field |-> 0, arg |-> "false",
     props |-> <<>>, mem |-> [conf |-> <<>>, state |-> "uninit"],
     drops |-> [base |-> 0, conf |-> 0, state |-> 0]]

MaxThreads == 3     \* threads that own handles

Threads == 1..MaxThreads

\* No thread owns a handle: thr[t] is [own, pc], the handles thread t owns (all
\* to the one instance) and where it is: "idle", or "cloned" when clone() has
\* made its call of object_ref and has not returned the new handle yet.
NoThr == [t \in Threads |-> [own |-> 0, pc |-> "idle"]]

\* The utility modules are not in use.
XIdle ==
    /\ layout = NoLayout /\ fgn = NoFgn /\ ebr = NoEbr /\ cls = NoCls
    /\ tyd = NoTyd /\ thr = NoThr

\* The bound "A: IsA<B>" the compiler checks on upcast and downcast.
IsA(a, b) == <<a, b>> \in isa


Min(S) == CHOOSE x \in S : \A y \in S : x <= y

\* --------------------------------------------------------- foreign runtime
\* The type table the runtime starts with: the classes implemented on the
\* foreign side.  A native class enters it only through type_register.
ForeignTypes ==
    {[name |-> "object", parent |-> "", instance_finalize |-> "foreign"],
     [name |-> "device", parent |-> "object", instance_finalize |-> "foreign"]}

Registered(tt, name) == \E t \in tt : t.name = name

TypeOf(tt, name) == CHOOSE t \in tt : t.name = name

RECURSIVE type_is_a(_, _, _)
\* The type called name is the type called target or one of its descendants.
type_is_a(tt, name, target) ==
    IF ~Registered(tt, name) THEN FALSE
    ELSE IF name = target THEN TRUE
    ELSE type_is_a(tt, TypeOf(tt, name).parent, target)

\* register_type(descriptor)
type_register(tt, ti) == tt \cup {ti}

FreeAddrs(hp) == {a \in Addr : hp[a].st = "unalloc"}

\* allocate(type_name): a new instance with reference count 1; a failure
\* either aborts or returns null.  An unknown type name is a failure.
object_new(w, tt, name) ==
    {[w |-> w, ret |-> NULL, abort |-> FALSE], [w |-> w, ret |-> NULL, abort |-> TRUE]}
    \cup
    IF Registered(tt, name) /\ FreeAddrs(w.heap) # {}
    THEN LET a == Min(FreeAddrs(w.heap))
         IN {[w |-> [w EXCEPT !.heap[a] = [st |-> "live", type |-> name, ref |-> 1,
                                            fin |-> 0, hook |-> 0]],
              ret |-> a, abort |-> FALSE]}
    ELSE {}

\* increment_refcount(handle); the call is counted in w.nref.
object_ref(w, p) ==
    IF p \in Addr /\ w.heap[p].st = "live"
    THEN [w EXCEPT !.heap[p].ref = @ + 1, !.nref = @ + 1]
    ELSE [w EXCEPT !.nref = @ + 1]

\* finalize-then-free of the instance at p: the instance finalize hook its
\* type registered runs, then the memory is released.
object_finalize(w, tt, p) ==
    LET native == Registered(tt, w.heap[p].type)
                  /\ TypeOf(tt, w.heap[p].type).instance_finalize = "rust_instance_finalize"
    IN [w EXCEPT !.heap[p].st = "freed",
                 !.heap[p].fin = @ + 1,
                 !.heap[p].hook = IF native THEN @ + 1 ELSE @]

\* decrement_refcount(handle), freeing at zero; the call is counted in w.nunref.
object_unref(w, tt, p) ==
    LET w1 == [w EXCEPT !.nunref = @ + 1] IN
    IF p \notin Addr \/ w.heap[p].st = "unalloc" THEN w1
    ELSE IF w.heap[p].st = "freed" THEN object_finalize(w1, tt, p)
    ELSE IF w.heap[p].ref <= 1
         THEN object_finalize([w1 EXCEPT !.heap[p].ref = 0], tt, p)
         ELSE [w1 EXCEPT !.heap[p].ref = @ - 1]

\* dynamic_cast(handle, type_name) -> handle | null
object_dynamic_cast(hp, tt, p, name) ==
    IF p \in Addr /\ hp[p].st = "live" /\ type_is_a(tt, hp[p].type, name)
    THEN p
    ELSE NULL

\* get_type_name(handle)
object_get_typename(hp, p) == hp[p].type

\* ----------------------------------------------- type registration (Rust)
\* The TypeInfo rust_type_register::<T>() builds and hands to type_register.
\* Nothing in the crate calls rust_type_register (qom_define_type! ends with
\* "TODO: call rust_type_register"), so no action below uses it.
rust_type_register(tt, T) ==
    type_register(tt, [name |-> TYPE(T), parent |-> TYPE(Super(T)),
                       instance_finalize |-> "rust_instance_finalize"])

\* ------------------------------------------- borrowed references, ObjectCast
\* A reference is [ptr, ty]: an address and the static type it is viewed as.

\* ObjectCast::unsafe_cast: the same address viewed as U, no check.
ObjectCast_unsafe_cast(r, U) == [ptr |-> r.ptr, ty |-> U]

\* ObjectCast::upcast, callable only where Self::Target: IsA<U>.
ObjectCast_upcast(r, U) == ObjectCast_unsafe_cast(r, U)

\* A dynamic_cast that compares U with the static type of self instead of
\* asking the runtime for the type of the instance.
ObjectCast_dynamic_cast_static(w, tt, r, U) ==
    [w |-> w, ref |-> IF r.ty = U THEN [ptr |-> r.ptr, ty |-> U] ELSE NoRef]

\* A dynamic_cast that never reports a failure (result.as_ref() replaced by
\* an unchecked dereference of self).
ObjectCast_dynamic_cast_unchecked(w, tt, r, U) ==
    [w |-> w, ref |-> [ptr |-> r.ptr, ty |-> U]]

\* ObjectCast::dynamic_cast: object_dynamic_cast on self viewed as Object with
\* U::TYPE; the returned pointer viewed as U, None when it is null.  No other
\* foreign call is made, so the world w is handed back as it was.
ObjectCast_dynamic_cast(w, tt, r, U) ==
    LET result == object_dynamic_cast(w.heap, tt, ObjectCast_unsafe_cast(r, "Object").ptr,
                                      TYPE(U))
    IN [w |-> w, ref |-> IF result = NULL THEN NoRef ELSE [ptr |-> result, ty |-> U]]

\* ObjectCast::downcast, callable only where U: IsA<Self::Target>.
ObjectCast_downcast(w, tt, r, U) == ObjectCast_dynamic_cast(w, tt, r, U)

\* ObjectMethods::typename: the runtime's name for the instance behind r.
typename(hp, r) == object_get_typename(hp, ObjectCast_upcast(r, "Object").ptr)

\* ------------------------------------------------------ owning handle, Arc
\* Arc::from_raw: wraps the pointer with NonNull::new_unchecked, no check and
\* no reference-count call.
Arc_from_raw(ptr, T) == [ptr |-> ptr, ty |-> T]

\* Deref for Arc
Arc_deref(a) == [ptr |-> a.ptr, ty |-> a.ty]

\* An Arc::from that wraps the pointer as from_raw does.
Arc_from_noref(w, obj) == [w |-> w, arc |-> [ptr |-> obj.ptr, ty |-> obj.ty]]

\* Arc::from: object_ref on the instance, then the handle.
Arc_from(w, obj) ==
    [w |-> object_ref(w, ObjectCast_unsafe_cast(obj, "Object").ptr),
     arc |-> [ptr |-> obj.ptr, ty |-> obj.ty]]

\* A clone that copies the pointer without taking a reference.
Arc_clone_noref(w, a) == [w |-> w, arc |-> Arc_from_raw(a.ptr, a.ty)]

\* Clone for Arc
Arc_clone(w, a) == Arc_from(w, Arc_deref(a))

\* A drop that forgets the handle without releasing its reference.
Arc_drop_leak(w, tt, a) == w

\* Drop for Arc
Arc_drop(w, tt, a) == object_unref(w, tt, ObjectCast_unsafe_cast(Arc_deref(a), "Object").ptr)

\* A dynamic_cast whose failure path hands back a new handle made with
\* Arc::from instead of the one taken out of the ManuallyDrop.
Arc_dynamic_cast_reref(w, tt, src, U) ==
    LET c == ObjectCast_dynamic_cast(w, tt, Arc_deref(src), U)
    IN IF c.ref = NoRef
       THEN [w |-> Arc_from(c.w, Arc_deref(src)).w, ok |-> FALSE, arc |-> src]
       ELSE [w |-> c.w, ok |-> TRUE, arc |-> Arc_from_raw(c.ref.ptr, U)]

\* A dynamic_cast without the ManuallyDrop: src is dropped when a handle of
\* the new type has been made.
Arc_dynamic_cast_dropsrc(w, tt, src, U) ==
    LET c == ObjectCast_dynamic_cast(w, tt, Arc_deref(src), U)
    IN IF c.ref = NoRef
       THEN [w |-> c.w, ok |-> FALSE, arc |-> src]
       ELSE [w |-> Arc_drop(c.w, tt, src), ok |-> TRUE, arc |-> Arc_from_raw(c.ref.ptr, U)]

\* Arc::dynamic_cast: Err(src) when the cast of the reference gives None,
\* Ok(Arc::from_raw(casted_ref)) otherwise; src is in a ManuallyDrop.
Arc_dynamic_cast(w, tt, src, U) ==
    LET c == ObjectCast_dynamic_cast(w, tt, Arc_deref(src), U)
    IN IF c.ref = NoRef
       THEN [w |-> c.w, ok |-> FALSE, arc |-> src]
       ELSE [w |-> c.w, ok |-> TRUE, arc |-> Arc_from_raw(c.ref.ptr, U)]

\* Arc::downcast, callable only where U: IsA<T>.
Arc_downcast(w, tt, src, U) == Arc_dynamic_cast(w, tt, src, U)

\* An unsafe_cast without the ManuallyDrop: src is dropped at the end.
Arc_unsafe_cast_dropsrc(w, tt, src, U) ==
    [w |-> Arc_drop(w, tt, src), ok |-> TRUE,
     arc |-> Arc_from_raw(ObjectCast_unsafe_cast(Arc_deref(src), U).ptr, U)]

\* Arc::unsafe_cast: src is in a ManuallyDrop, the result is
\* Arc::from_raw(src.unsafe_cast::<U>()).
Arc_unsafe_cast(w, tt, src, U) ==
    [w |-> w, ok |-> TRUE,
     arc |-> Arc_from_raw(ObjectCast_unsafe_cast(Arc_deref(src), U).ptr, U)]

\* Arc::upcast, callable only where T: IsA<U>.
Arc_upcast(w, tt, src, U) == Arc_unsafe_cast(w, tt, src, U)

\* ObjectClassMethods::new: &*object_new(Self::TYPE), viewed as Self and
\* wrapped with from_raw.  The pointer is dereferenced without a null check,
\* so a null return is undefined behaviour: the process faults, or goes on
\* with a handle that holds the null address.
ObjectClassMethods_new(w, tt, T) ==
    UNION { IF o.abort
            THEN {[w |-> o.w, arc |-> NoArc, crashed |-> TRUE]}
            ELSE IF o.ret = NULL
            THEN {[w |-> o.w, arc |-> NoArc, crashed |-> TRUE],
                  [w |-> o.w, crashed |-> FALSE,
                   arc |-> Arc_from_raw(ObjectCast_unsafe_cast([ptr |-> o.ret, ty |-> "Object"], T).ptr, T)]}
            ELSE {[w |-> o.w, crashed |-> FALSE,
                   arc |-> Arc_from_raw(ObjectCast_unsafe_cast([ptr |-> o.ret, ty |-> "Object"], T).ptr, T)]}
          : o \in object_new(w, tt, TYPE(T)) }

\* ------------------------------------------------------------ state machine
\* The values an owning handle can have: an address, or null after new() was
\* handed a null pointer, and the static type T of Arc<T>.
ArcVals == [ptr : Addr \cup {NULL}, ty : Classes]

RECURSIVE Sum(_, _)
Sum(f, S) == IF S = {} THEN 0 ELSE LET x == CHOOSE y \in S : TRUE IN f[x] + Sum(f, S \ {x})

NumHandles == Sum(arcs, ArcVals)

\* The live handles that hold address p.
HandlesTo(p) == Sum(arcs, {v \in ArcVals : v.ptr = p})

Init ==
    /\ heap = [a \in Addr |-> FreshObj]
    /\ type_table = ForeignTypes
    /\ isa = IsADecl
    /\ arcs = [v \in ArcVals |-> 0]
    /\ borrow = NoBorrow
    /\ last = NoLast
    /\ crashed = FALSE
    /\ XIdle

World == [heap |-> heap, nref |-> 0, nunref |-> 0]

Live(v) == arcs[v] > 0

\* A handle of value v that is not borrowed: it can be moved or dropped.
Movable(v) == arcs[v] > (IF borrow.from = v THEN 1 ELSE 0)

Put(bag, v) == [bag EXCEPT ![v] = @ + 1]
Take(bag, v) == [bag EXCEPT ![v] = @ - 1]

\* The caller of an unsafe_cast to U has to know that the instance is a U.
CastIsCorrect(p, U) == p \in Addr => type_is_a(type_table, heap[p].type, TYPE(U))

\* The record of an operation that ended with the world w.
Did(op, ty, p, ok, w, fresh) ==
    [op |-> op, ty |-> ty, ptr |-> p, ok |-> ok,
     nref |-> w.nref, nunref |-> w.nunref, fresh |-> fresh]

\* Using a handle that holds the null address builds a reference to address 0:
\* the process may fault there.
NullFault(v) ==
    /\ v.ptr = NULL
    /\ crashed' = TRUE
    /\ UNCHANGED <<xvars, heap, type_table, isa, arcs, borrow, last>>

\* T::new()
New(T) ==
    /\ ~crashed
    /\ NumHandles < MaxHandles
    /\ \E o \in ObjectClassMethods_new(World, type_table, T) :
         /\ heap' = o.w.heap
         /\ crashed' = o.crashed
         /\ arcs' = IF o.crashed THEN arcs ELSE Put(arcs, o.arc)
         /\ last' = Did("new", T, o.arc.ptr, ~o.crashed, o.w, FALSE)
    /\ UNCHANGED <<xvars, type_table, isa, borrow>>

\* v.clone() on a live handle of value v
Clone(v) ==
    /\ ~crashed
    /\ Live(v)
    /\ NumHandles < MaxHandles
    /\ \/ LET r == Arc_clone(World, v) IN
          /\ heap' = r.w.heap
          /\ arcs' = Put(arcs, r.arc)
          /\ last' = Did("clone", NoClass, v.ptr, TRUE, r.w, FALSE)
          /\ UNCHANGED <<xvars, type_table, isa, borrow, crashed>>
       \/ NullFault(v)

\* drop(v); a handle that is borrowed cannot be dropped.
Drop(v) ==
    /\ ~crashed
    /\ Movable(v)
    /\ \/ LET w == Arc_drop(World, type_table, v) IN
          /\ heap' = w.heap
          /\ arcs' = Take(arcs, v)
          /\ last' = Did("drop", v.ty, v.ptr, TRUE, w,
                         last.op = "new" /\ last.ok /\ last.ty = v.ty /\ last.ptr = v.ptr)
          /\ UNCHANGED <<xvars, type_table, isa, borrow, crashed>>
       \/ NullFault(v)

\* The four casts of an owning handle; each consumes v, and its result r.arc
\* is the handle the caller holds afterwards.
ArcCast(op, v, U, r) ==
    /\ heap' = r.w.heap
    /\ arcs' = Put(Take(arcs, v), r.arc)
    /\ last' = Did(op, NoClass, v.ptr, r.ok, r.w, FALSE)
    /\ UNCHANGED <<xvars, type_table, isa, borrow, crashed>>

\* Arc::upcast::<U>(v), which compiles only where T: IsA<U>
ArcUpcast(v, U) ==
    /\ ~crashed /\ Movable(v)
    /\ IsA(v.ty, U)
    /\ \/ ArcCast("arc_upcast", v, U, Arc_upcast(World, type_table, v, U))
       \/ NullFault(v)

\* Arc::downcast::<U>(v), which compiles only where U: IsA<T>
ArcDowncast(v, U) ==
    /\ ~crashed /\ Movable(v)
    /\ IsA(U, v.ty)
    /\ \/ ArcCast("arc_downcast", v, U, Arc_downcast(World, type_table, v, U))
       \/ NullFault(v)

\* Arc::dynamic_cast::<U>(v)
ArcDynamicCast(v, U) ==
    /\ ~crashed /\ Movable(v)
    /\ \/ ArcCast("arc_dynamic_cast", v, U, Arc_dynamic_cast(World, type_table, v, U))
       \/ NullFault(v)

\* Arc::unsafe_cast::<U>(v)
ArcUnsafeCast(v, U) ==
    /\ ~crashed /\ Movable(v)
    /\ CastIsCorrect(v.ptr, U)
    /\ \/ ArcCast("arc_unsafe_cast", v, U, Arc_unsafe_cast(World, type_table, v, U))
       \/ NullFault(v)

\* &*v: a borrowed reference, in scope until EndBorrow.
Borrow(v) ==
    /\ ~crashed /\ Live(v)
    /\ borrow = NoBorrow
    /\ \/ /\ borrow' = [from |-> v, ref |-> Arc_deref(v), via |-> "deref", mid |-> NoClass]
          /\ last' = Did("borrow", NoClass, v.ptr, TRUE, World, FALSE)
          /\ UNCHANGED <<xvars, heap, type_table, isa, arcs, crashed>>
       \/ NullFault(v)

EndBorrow ==
    /\ ~crashed
    /\ borrow # NoBorrow
    /\ borrow' = NoBorrow
    /\ last' = Did("end_borrow", NoClass, borrow.ref.ptr, TRUE, World, FALSE)
    /\ UNCHANGED <<xvars, heap, type_table, isa, arcs, crashed>>

\* How the reference in scope was made, after the cast op to U gave a result.
ViaAfter(op, U) ==
    IF op = "upcast" /\ borrow.via = "deref" THEN "upcast"
    ELSE IF op = "dynamic_cast" /\ borrow.via = "upcast" /\ U = borrow.from.ty
         THEN "roundtrip"
    ELSE "other"

\* A cast of the borrowed reference: the result r.ref, when there is one, is
\* the reference now in scope; a failed cast leaves the reference (it is Copy).
RefCast(op, U, r) ==
    /\ borrow' = IF r.ref = NoRef THEN borrow
                 ELSE [borrow EXCEPT !.ref = r.ref,
                                     !.via = ViaAfter(op, U),
                                     !.mid = IF ViaAfter(op, U) = "upcast" THEN U
                                             ELSE IF ViaAfter(op, U) = "roundtrip" THEN @
                                             ELSE NoClass]
    /\ heap' = r.w.heap
    /\ last' = Did(op, NoClass, borrow.ref.ptr, r.ref # NoRef, r.w, FALSE)
    /\ UNCHANGED <<xvars, type_table, isa, arcs, crashed>>

CanCast ==
    /\ ~crashed
    /\ borrow # NoBorrow

\* r.upcast::<U>(), which compiles only where Self::Target: IsA<U>
RefUpcast(U) ==
    /\ CanCast
    /\ IsA(borrow.ref.ty, U)
    /\ RefCast("upcast", U, [w |-> World, ref |-> ObjectCast_upcast(borrow.ref, U)])

\* r.downcast::<U>(), which compiles only where U: IsA<Self::Target>
RefDowncast(U) ==
    /\ CanCast
    /\ IsA(U, borrow.ref.ty)
    /\ RefCast("downcast", U, ObjectCast_downcast(World, type_table, borrow.ref, U))

\* r.dynamic_cast::<U>()
RefDynamicCast(U) ==
    /\ CanCast
    /\ RefCast("dynamic_cast", U, ObjectCast_dynamic_cast(World, type_table, borrow.ref, U))

\* r.unsafe_cast::<U>()
RefUnsafeCast(U) ==
    /\ CanCast
    /\ CastIsCorrect(borrow.ref.ptr, U)
    /\ RefCast("unsafe_cast", U, [w |-> World, ref |-> ObjectCast_unsafe_cast(borrow.ref, U)])

\* Arc::from(&T) on the borrowed reference in scope
ArcFrom ==
    /\ ~crashed
    /\ borrow # NoBorrow
    /\ NumHandles < MaxHandles
    /\ \/ LET r == Arc_from(World, borrow.ref) IN
          /\ heap' = r.w.heap
          /\ arcs' = Put(arcs, r.arc)
          /\ last' = Did("arc_from", NoClass, borrow.ref.ptr, TRUE, r.w, FALSE)
          /\ UNCHANGED <<xvars, type_table, isa, borrow, crashed>>
       \/ NullFault(borrow.ref)

\* Owning handles: creation, clone, drop and the casts of a handle.
Next ==
    \/ \E T \in Classes : New(T)
    \/ \E v \in ArcVals : Clone(v)
    \/ \E v \in ArcVals : Drop(v)
    \/ \E v \in ArcVals, U \in Classes : ArcUpcast(v, U)
    \/ \E v \in ArcVals, U \in Classes : ArcDowncast(v, U)
    \/ \E v \in ArcVals, U \in Classes : ArcDynamicCast(v, U)
    \/ \E v \in ArcVals, U \in Classes : ArcUnsafeCast(v, U)

Spec == Init /\ [][Next]_vars

\* Borrowed references: borrowing from a handle, the casts of a reference,
\* and Arc::from on a reference.
NextRef ==
    \/ \E T \in Classes : New(T)
    \/ \E v \in ArcVals : Drop(v)
    \/ \E v \in ArcVals : Borrow(v)
    \/ EndBorrow
    \/ \E U \in Classes : RefUpcast(U)
    \/ \E U \in Classes : RefDowncast(U)
    \/ \E U \in Classes : RefDynamicCast(U)
    \/ \E U \in Classes : RefUnsafeCast(U)
    \/ ArcFrom

SpecRef == Init /\ [][NextRef]_vars

\* Every cast, of handles and of references.
NextCast ==
    \/ \E T \in Classes : New(T)
    \/ \E v \in ArcVals, U \in Classes : ArcUpcast(v, U)
    \/ \E v \in ArcVals, U \in Classes : ArcDowncast(v, U)
    \/ \E v \in ArcVals, U \in Classes : ArcDynamicCast(v, U)
    \/ \E v \in ArcVals, U \in Classes : ArcUnsafeCast(v, U)
    \/ \E v \in ArcVals : Borrow(v)
    \/ EndBorrow
    \/ \E U \in Classes : RefUpcast(U)
    \/ \E U \in Classes : RefDowncast(U)
    \/ \E U \in Classes : RefDynamicCast(U)
    \/ \E U \in Classes : RefUnsafeCast(U)

SpecCast == Init /\ [][NextCast]_vars

\* The variables of the object model, and their values before any object
\* has been created.
objvars == <<heap, type_table, isa, arcs, borrow, last, crashed>>

ObjIdle ==
    /\ heap = [a \in Addr |-> FreshObj]
    /\ type_table = ForeignTypes
    /\ isa = IsADecl
    /\ arcs = [v \in ArcVals |-> 0]
    /\ borrow = NoBorrow
    /\ last = NoLast
    /\ crashed = FALSE

\* --------------------------------------- struct layout, util::offset_of
MaxFields == 4      \* fields in one with_offsets! struct

\* The field types of the structs declared in the crate, as [size, align]:
\* () for an empty state, bool (TestConf::foo), i32 (TestState::bar), and the
\* 8-byte, 8-aligned types (a pointer, u64, a parent struct of size 8).
FieldTypes ==
    {[size |-> 0, align |-> 1], [size |-> 1, align |-> 1],
     [size |-> 4, align |-> 4], [size |-> 8, align |-> 8]}

size_of(ty) == ty.size
align_of(ty) == ty.align

\* (trail == 0) as usize
as_usize(b) == IF b THEN 1 ELSE 0

\* An expansion that adds align - trail also when the end of the previous
\* field is aligned already (the [1, 0][..] mask left out).
Helper_field_offset_nomask(END_OF_PREV_FIELD, field_ty) ==
    LET align == align_of(field_ty)
        trail == END_OF_PREV_FIELD % align
    IN 0 + END_OF_PREV_FIELD + (align - trail)

\* const $field_name: usize of impl Helper, for a field of type field_ty that
\* follows a field ending at END_OF_PREV_FIELD.  [1, 0][i] is indexed from 0.
Helper_field_offset(END_OF_PREV_FIELD, field_ty) ==
    LET align == align_of(field_ty)
        trail == END_OF_PREV_FIELD % align
    IN 0 + END_OF_PREV_FIELD + (align - trail) * <<1, 0>>[as_usize(trail = 0) + 1]

\* The field lists a struct can declare.
FieldLists == UNION {[1..n -> FieldTypes] : n \in 1..MaxFields}

\* with_offsets! { struct .. }: END_OF_PREV_FIELD starts at 0.
InitLayout ==
    /\ ObjIdle
    /\ fgn = NoFgn
    /\ ebr = NoEbr
    /\ cls = NoCls
    /\ tyd = NoTyd
    /\ thr = NoThr
    /\ \E fields \in FieldLists :
         layout = [fields |-> fields, offset_to |-> <<>>, END_OF_PREV_FIELD |-> 0]

\* One step of the recursion "@names [name rest..] @tys [ty, rest..]": the
\* offset of the next field, and END_OF_PREV_FIELD for the rest.
with_offsets_field ==
    /\ Len(layout.offset_to) < Len(layout.fields)
    /\ LET field_ty == layout.fields[Len(layout.offset_to) + 1]
           offset == Helper_field_offset(layout.END_OF_PREV_FIELD, field_ty)
       IN layout' = [layout EXCEPT !.offset_to = Append(@, offset),
                                   !.END_OF_PREV_FIELD = offset + size_of(field_ty)]
    /\ UNCHANGED <<objvars, fgn, ebr, cls, tyd, thr>>

NextLayout == with_offsets_field

SpecLayout == InitLayout /\ [][NextLayout]_vars

\* ------------------------------------------- value marshaling, util::foreign
MaxStrLen == 2      \* bytes in a native String
MaxByte == 2        \* byte values 1..MaxByte stand for ASCII characters, 0 is NUL
MaxStack == 3       \* nested calls the stack has room for

Bytes == 0..MaxByte

\* The native Strings.
Strings == UNION {[1..n -> Bytes] : n \in 0..MaxStrLen}

\* libc::malloc(n): a block of n bytes, not yet written (shown as -1).
libc_malloc(mem, n) == [mem EXCEPT !.st = "live", !.bytes = [i \in 1..n |-> -1]]

\* libc::free(p); free(NULL) does nothing.
libc_free(mem, p) ==
    IF p = NULL THEN mem ELSE [mem EXCEPT !.st = "freed", !.nfree = @ + 1]

\* OwnedPointer::new
OwnedPointer_new(ptr) == ptr

\* OwnedPointer::as_ptr / OwnedPointer::as_mut_ptr
OwnedPointer_as_ptr(own) == own

\* OwnedPointer::into_inner: the pointer, the wrapper forgotten.
OwnedPointer_into_inner(own) == own

\* OwnedPointer::from / OwnedPointer::into: same pointer, another native type.
OwnedPointer_into(own) == OwnedPointer_new(OwnedPointer_into_inner(own))

\* A clone_to_foreign that copies one byte less than the String has.
String_clone_to_foreign_short(mem, s) ==
    LET len == IF Len(s) = 0 THEN 0 ELSE Len(s) - 1
        m == libc_malloc(mem, len + 1)
    IN [mem |-> [m EXCEPT !.bytes = [i \in 1..(len + 1) |-> IF i <= len THEN s[i] ELSE 0]],
        own |-> OwnedPointer_new(1)]

\* CloneToForeign for String: malloc(len + 1), the bytes of self copied in,
\* a NUL stored at p.add(len).
String_clone_to_foreign(mem, s) ==
    LET m == libc_malloc(mem, Len(s) + 1)
    IN [mem |-> [m EXCEPT !.bytes = [i \in 1..(Len(s) + 1) |->
                                        IF i <= Len(s) THEN s[i] ELSE 0]],
        own |-> OwnedPointer_new(1)]

\* CloneToForeign for String::free_foreign
String_free_foreign(mem, p) == libc_free(mem, p)

\* CStr::from_ptr(p).to_bytes(): the bytes at p up to the first NUL.
CStr_to_bytes(bytes) ==
    LET nul == Min({i \in 1..Len(bytes) : bytes[i] = 0})
    IN SubSeq(bytes, 1, nul - 1)

\* String::from_utf8_lossy on single-byte characters: a byte that is not
\* ASCII becomes U+FFFD.
from_utf8_lossy(bytes) ==
    [i \in 1..Len(bytes) |-> IF bytes[i] < 128 THEN bytes[i] ELSE 65533]

\* FromForeign for String::cloned_from_foreign
String_cloned_from_foreign(mem, p) == from_utf8_lossy(CStr_to_bytes(mem.bytes))

\* A from_foreign that leaves the buffer to the caller.
String_from_foreign_nofree(mem, p) ==
    [result |-> String_cloned_from_foreign(mem, p), mem |-> mem]

\* FromForeign::from_foreign: cloned_from_foreign(p), then free_foreign(p).
String_from_foreign(mem, p) ==
    [result |-> String_cloned_from_foreign(mem, p), mem |-> String_free_foreign(mem, p)]

\* OwnedPointer::into_native
OwnedPointer_into_native(mem, own) == String_from_foreign(mem, OwnedPointer_into_inner(own))

\* IntoNative for *mut T
ptr_into_native(mem, p) == String_from_foreign(mem, p)

\* A cloned_from_foreign for Option<T> that takes every pointer for null.
Option_String_cloned_from_foreign_null(mem, p) == None

\* FromForeign for Option<T>::cloned_from_foreign, T = String: None for a
\* null pointer, else Some(T::cloned_from_foreign(p)).
Option_String_cloned_from_foreign(mem, p) ==
    IF p = NULL THEN None ELSE Some(String_cloned_from_foreign(mem, p))

\* FromForeign::from_foreign for Option<String>: cloned_from_foreign(p), then
\* free_foreign(p), which is T::free_foreign(p).
Option_String_from_foreign(mem, p) ==
    [result |-> Option_String_cloned_from_foreign(mem, p),
     mem |-> String_free_foreign(mem, p)]

\* The address of the CString a borrow keeps as its storage.
StorageAddr == 2

\* ForeignBorrow for String::borrow_foreign: CString::new(&self[..]).unwrap(),
\* which panics for a zero byte inside, and a pointer to that CString.
String_borrow_foreign(s) ==
    IF \E i \in 1..Len(s) : s[i] = 0
    THEN [panic |-> TRUE, ptr |-> -1, storage |-> <<>>]
    ELSE [panic |-> FALSE, ptr |-> StorageAddr, storage |-> s \o <<0>>]

\* ForeignBorrow for Option<T>::borrow_foreign: a null pointer and no storage
\* for None, for Some the pointer of the contained value's borrow with its
\* storage in Some.
Option_borrow_foreign(v) ==
    IF ~v.some
    THEN [panic |-> FALSE, ptr |-> NULL, storage |-> None]
    ELSE LET bp == String_borrow_foreign(v.s)
         IN [panic |-> bp.panic, ptr |-> bp.ptr, storage |-> Some(bp.storage)]

\* Drop for OwnedPointer: free_foreign on the pointer, null left behind.
OwnedPointer_drop(mem, own) == [mem |-> String_free_foreign(mem, own), own |-> NULL]

\* The native types whose foreign form is a char * released with libc::free.
CharTypes == {"str", "String", "Option"}

\* The values handed to clone_to_foreign: a String, or an Option<String>.
InitForeign ==
    /\ ObjIdle
    /\ layout = NoLayout
    /\ ebr = NoEbr
    /\ cls = NoCls
    /\ tyd = NoTyd
    /\ thr = NoThr
    /\ \E s \in Strings, kind \in {"String", "Option"}, some \in BOOLEAN :
         /\ kind = "String" => some
         /\ ~some => s = <<>>
         /\ fgn = [NoFgn EXCEPT !.pc = "native",
                                !.val = [kind |-> kind, some |-> some, s |-> s]]

\* s.clone_to_foreign() on a String
StringCloneToForeign ==
    /\ fgn.pc = "native" /\ fgn.val.kind = "String"
    /\ LET r == String_clone_to_foreign(fgn.mem, fgn.val.s)
       IN fgn' = [fgn EXCEPT !.pc = "owned", !.mem = r.mem, !.own = r.own,
                             !.ty = "String"]
    /\ UNCHANGED <<objvars, layout, ebr, cls, tyd, thr>>

\* Some(s).clone_to_foreign(): self.as_ref().map(clone_to_foreign)
\* .map(OwnedPointer::into); unwrap_or_default() then takes the Some.
OptionCloneToForeignSome ==
    /\ fgn.pc = "native" /\ fgn.val.kind = "Option" /\ fgn.val.some
    /\ LET r == String_clone_to_foreign(fgn.mem, fgn.val.s)
       IN fgn' = [fgn EXCEPT !.pc = "owned", !.mem = r.mem, !.own = OwnedPointer_into(r.own),
                             !.ty = "Option"]
    /\ UNCHANGED <<objvars, layout, ebr, cls, tyd, thr>>

\* None.clone_to_foreign(): the maps give None and unwrap_or_default() calls
\* OwnedPointer::<Option<T>>::default(), which is
\* <Option<T> as Default>::default().clone_to_foreign(), that is
\* None.clone_to_foreign() again: one more nested call, until the stack has
\* no room left.
OptionCloneToForeignNone ==
    /\ fgn.pc \in {"native", "calling"} /\ fgn.val.kind = "Option" /\ ~fgn.val.some
    /\ fgn' = IF fgn.depth < MaxStack
              THEN [fgn EXCEPT !.pc = "calling", !.depth = @ + 1]
              ELSE [fgn EXCEPT !.pc = "overflow"]
    /\ UNCHANGED <<objvars, layout, ebr, cls, tyd, thr>>

\* foreign.into_native() on the OwnedPointer
OwnedPointerIntoNative ==
    /\ fgn.pc = "owned"
    /\ LET r == OwnedPointer_into_native(fgn.mem, fgn.own)
       IN fgn' = [fgn EXCEPT !.pc = "done", !.mem = r.mem, !.out = r.result, !.own = NULL]
    /\ UNCHANGED <<objvars, layout, ebr, cls, tyd, thr>>

\* foreign.into_inner(), as clone_to_foreign_ptr() does
OwnedPointerIntoInner ==
    /\ fgn.pc = "owned"
    /\ fgn' = [fgn EXCEPT !.pc = "raw", !.own = OwnedPointer_into_inner(fgn.own)]
    /\ UNCHANGED <<objvars, layout, ebr, cls, tyd, thr>>

\* drop(foreign): Drop for OwnedPointer frees the pointer.
OwnedPointerDrop ==
    /\ fgn.pc = "owned"
    /\ LET r == OwnedPointer_drop(fgn.mem, fgn.own)
       IN fgn' = [fgn EXCEPT !.pc = "dropped", !.mem = r.mem, !.own = r.own]
    /\ UNCHANGED <<objvars, layout, ebr, cls, tyd, thr>>

\* String::from_foreign(p) on the raw pointer
StringFromForeign ==
    /\ fgn.pc = "raw"
    /\ LET r == String_from_foreign(fgn.mem, fgn.own)
       IN fgn' = [fgn EXCEPT !.pc = "done", !.mem = r.mem, !.out = r.result, !.own = NULL]
    /\ UNCHANGED <<objvars, layout, ebr, cls, tyd, thr>>

\* p.into_native() on the raw pointer
PtrIntoNative ==
    /\ fgn.pc = "raw"
    /\ LET r == ptr_into_native(fgn.mem, fgn.own)
       IN fgn' = [fgn EXCEPT !.pc = "done", !.mem = r.mem, !.out = r.result, !.own = NULL]
    /\ UNCHANGED <<objvars, layout, ebr, cls, tyd, thr>>

\* foreign.as_ptr() / foreign.as_mut_ptr(): the wrapper stays as it is.
OwnedPointerAsPtr ==
    /\ fgn.pc = "owned"
    /\ fgn' = [fgn EXCEPT !.ptr = OwnedPointer_as_ptr(fgn.own)]
    /\ UNCHANGED <<objvars, layout, ebr, cls, tyd, thr>>

\* OwnedPointer::<U>::from(foreign) / foreign.into(): a wrapper for another
\* native type with the same foreign type and free function.
OwnedPointerFrom(U) ==
    /\ fgn.pc = "owned"
    /\ U # fgn.ty
    /\ fgn' = [fgn EXCEPT !.own = OwnedPointer_into(fgn.own), !.ty = U]
    /\ UNCHANGED <<objvars, layout, ebr, cls, tyd, thr>>

\* String::cloned_from_foreign(p) on the pointer as_ptr gave, or on the raw
\* pointer: a native copy, the buffer stays.
ClonedFromForeign ==
    /\ \/ fgn.pc = "owned" /\ fgn.ptr = fgn.own
       \/ fgn.pc = "raw"
    /\ fgn' = [fgn EXCEPT !.out = String_cloned_from_foreign(fgn.mem, fgn.own),
                          !.ncopy = 1]
    /\ UNCHANGED <<objvars, layout, ebr, cls, tyd, thr>>

\* v.borrow_foreign() on an Option<String>; the storage of the borrow is the
\* buffer the pointer leads to.
OptionBorrowForeign ==
    /\ fgn.pc = "native" /\ fgn.val.kind = "Option"
    /\ LET bp == Option_borrow_foreign(fgn.val)
       IN fgn' = IF bp.panic THEN [fgn EXCEPT !.pc = "panic"]
                 ELSE [fgn EXCEPT !.pc = "borrowed", !.ptr = bp.ptr,
                                  !.mem = IF bp.storage.some
                                          THEN [@ EXCEPT !.st = "live",
                                                         !.bytes = bp.storage.v]
                                          ELSE @]
    /\ UNCHANGED <<objvars, layout, ebr, cls, tyd, thr>>

\* Option::<String>::cloned_from_foreign(borrowed.as_ptr())
OptionClonedFromForeign ==
    /\ fgn.pc = "borrowed"
    /\ fgn' = [fgn EXCEPT !.pc = "cloned",
                          !.oout = Option_String_cloned_from_foreign(fgn.mem, fgn.ptr)]
    /\ UNCHANGED <<objvars, layout, ebr, cls, tyd, thr>>

\* Option::<String>::from_foreign(p): on the raw pointer of an
\* Option<String> that was cloned to foreign, or on ptr::null_mut().
OptionFromForeign ==
    /\ \/ fgn.pc = "raw" /\ fgn.ty = "Option"
       \/ fgn.pc = "native" /\ fgn.val.kind = "Option" /\ ~fgn.val.some
    /\ LET p == IF fgn.pc = "raw" THEN fgn.own ELSE NULL
           r == Option_String_from_foreign(fgn.mem, p)
       IN fgn' = [fgn EXCEPT !.pc = "taken", !.mem = r.mem, !.oout = r.result,
                             !.ptr = p, !.own = NULL]
    /\ UNCHANGED <<objvars, layout, ebr, cls, tyd, thr>>

NextForeign ==
    \/ OptionBorrowForeign
    \/ OptionClonedFromForeign
    \/ OptionFromForeign
    \/ OwnedPointerAsPtr
    \/ \E U \in CharTypes : OwnedPointerFrom(U)
    \/ ClonedFromForeign
    \/ StringCloneToForeign
    \/ OptionCloneToForeignSome
    \/ OptionCloneToForeignNone
    \/ OwnedPointerIntoNative
    \/ OwnedPointerIntoInner
    \/ OwnedPointerDrop
    \/ StringFromForeign
    \/ PtrIntoNative

SpecForeign == InitForeign /\ [][NextForeign]_vars

\* ------------------------------------------------- error bridge, util::error
\* Texts are sequences of bytes (ASCII codes).
Boom == <<98, 111, 111, 109>>                   \* "boom"
IoText == <<105, 111>>                          \* "io", the Display text of a cause
FileName == <<102>>                             \* "f"
ColonSpace == <<58, 32>>                        \* ": "
UnknownError ==                                 \* "unknown error"
    <<117, 110, 107, 110, 111, 119, 110, 32, 101, 114, 114, 111, 114>>
Garbage == <<63>>                               \* what is read through a wild pointer

RECURSIVE itoa(_)
\* A u32 written with "{}".
itoa(n) == IF n < 10 THEN <<48 + n>> ELSE itoa(n \div 10) \o <<48 + (n % 10)>>

\* The native errors: with and without a message (From<&str>, Error::default),
\* a cause (with_error, From<io::Error>) and a location (with_file_line,
\* with_error_file_line).
NativeErrors ==
    [msg : {None, Some(<<>>), Some(Boom)},
     cause : {None, Some(IoText)},
     location : {None, Some(<<FileName, 42>>)}]

\* Result<T, Error>
Ok == [ok |-> TRUE, e |-> NoError]
Err(e) == [ok |-> FALSE, e |-> e]
Results == {Ok} \cup {Err(e) : e \in NativeErrors}

\* A Display that does not set the prefix after the location.
Error_fmt_noprefix(e) ==
    LET out1 == IF e.location.some
                THEN e.location.v[1] \o <<58>> \o itoa(e.location.v[2]) ELSE <<>>
        prefix1 == <<>>
        out2 == IF e.msg.some THEN out1 \o prefix1 \o e.msg.v ELSE out1
        prefix2 == IF e.msg.some THEN ColonSpace ELSE prefix1
    IN IF e.cause.some THEN out2 \o prefix2 \o e.cause.v
       ELSE IF prefix2 = <<>> THEN out2 \o UnknownError
       ELSE out2

\* Display for Error
Error_fmt(e) ==
    LET out1 == IF e.location.some
                THEN e.location.v[1] \o <<58>> \o itoa(e.location.v[2]) ELSE <<>>
        prefix1 == IF e.location.some THEN ColonSpace ELSE <<>>
        out2 == IF e.msg.some THEN out1 \o prefix1 \o e.msg.v ELSE out1
        prefix2 == IF e.msg.some THEN ColonSpace ELSE prefix1
    IN IF e.cause.some THEN out2 \o prefix2 \o e.cause.v
       ELSE IF prefix2 = <<>> THEN out2 \o UnknownError
       ELSE out2

\* Error::from(msg), Error::from(io_error), Error::with_error,
\* Error::with_error_file_line, Error::with_file_line; cause stands for the
\* Display text of the cause.
Error_from_str(msg) == [msg |-> Some(msg), cause |-> None, location |-> None]
Error_from_io(cause) == [msg |-> None, cause |-> Some(cause), location |-> None]
Error_with_error(msg, cause) ==
    [msg |-> Some(msg), cause |-> Some(cause), location |-> None]
Error_with_error_file_line(msg, cause, file, line) ==
    [msg |-> Some(msg), cause |-> Some(cause), location |-> Some(<<file, line>>)]
Error_with_file_line(msg, file, line) ==
    [msg |-> Some(msg), cause |-> None, location |-> Some(<<file, line>>)]

FreeErrs(errs) == {a \in ErrAddr : errs[a].st = "unalloc"}

\* error_setg_internal(&x, .., "%s", text): a new foreign error whose message
\* is the C string text; x receives its address.
error_setg_internal(errs, text) ==
    LET a == Min(FreeErrs(errs))
    IN [errs |-> [errs EXCEPT ![a] = [st |-> "live", msg |-> CStr_to_bytes(text),
                                      nfree |-> 0]],
        x |-> a]

\* error_get_pretty(err)
error_get_pretty(errs, p) == errs[p].msg \o <<0>>

\* error_free(err): the error and its message are released;
\* error_free(NULL) does nothing.
error_free(errs, p) ==
    IF p = NULL THEN errs
    ELSE [errs EXCEPT ![p].st = "freed", ![p].msg = <<>>, ![p].nfree = @ + 1]

\* CloneToForeign for Error::clone_to_foreign.  The argument for "%s" is the
\* String format!("{}", self) itself, passed by value through the variadic
\* call, where the C side takes a char *: what the C side reads as the text
\* is undefined.  It may be the bytes of the String, it may be anything else,
\* and the read may fault.
Error_clone_to_foreign(errs, e) ==
    {[errs |-> errs, own |-> NULL, fault |-> TRUE]}
    \cup
    {[errs |-> error_setg_internal(errs, text).errs,
      own |-> OwnedPointer_new(error_setg_internal(errs, text).x),
      fault |-> FALSE] : text \in {Error_fmt(e) \o <<0>>, Garbage \o <<0>>}}

\* CloneToForeign for Error::free_foreign
Error_free_foreign(errs, p) == error_free(errs, p)

\* FromForeign for Error::cloned_from_foreign
Error_cloned_from_foreign(errs, c_error) ==
    [msg |-> Some(from_utf8_lossy(CStr_to_bytes(error_get_pretty(errs, c_error)))),
     cause |-> None, location |-> None]

\* A from_foreign that does not release the foreign error.
Error_from_foreign_nofree(errs, p) ==
    [result |-> Error_cloned_from_foreign(errs, p), errs |-> errs]

\* FromForeign::from_foreign for Error: cloned_from_foreign(p), free_foreign(p).
Error_from_foreign(errs, p) ==
    [result |-> Error_cloned_from_foreign(errs, p), errs |-> Error_free_foreign(errs, p)]

\* FromForeign for Option<Error>: cloned_from_foreign gives None for a null
\* pointer; from_foreign then calls free_foreign(p), null or not.
Option_Error_from_foreign(errs, p) ==
    IF p = NULL
    THEN [result |-> None, errs |-> Error_free_foreign(errs, p)]
    ELSE [result |-> Some(Error_from_foreign(errs, p).result),
          errs |-> Error_from_foreign(errs, p).errs]

\* Error::propagate: nothing when errp is null, else
\* errp.write(self.clone_to_foreign_ptr()).
Error_propagate(errs, e, errp_null) ==
    IF errp_null
    THEN {[errs |-> errs, wrote |-> FALSE, val |-> NULL, fault |-> FALSE]}
    ELSE {[errs |-> c.errs, wrote |-> ~c.fault,
           val |-> OwnedPointer_into_inner(c.own), fault |-> c.fault]
          : c \in Error_clone_to_foreign(errs, e)}

\* Error::ok_or_propagate: Some(ok) for Ok, for Err err.propagate(errp) and
\* None.
Error_ok_or_propagate(errs, result, errp_null) ==
    IF result.ok
    THEN {[errs |-> errs, wrote |-> FALSE, val |-> NULL, fault |-> FALSE, some |-> TRUE]}
    ELSE {[errs |-> o.errs, wrote |-> o.wrote, val |-> o.val, fault |-> o.fault,
           some |-> FALSE] : o \in Error_propagate(errs, result.e, errp_null)}

\* What the functions built on ok_or_propagate return: the Option itself,
\* is_some() for bool_or_propagate, a foreign copy or null for
\* ptr_or_propagate, nothing for propagate.
PropagateFns == {"ok_or_propagate", "bool_or_propagate", "ptr_or_propagate", "propagate"}

PropagateRet(fn, some) ==
    CASE fn = "ok_or_propagate"   -> IF some THEN "Some" ELSE "None"
      [] fn = "bool_or_propagate" -> IF some THEN "true" ELSE "false"
      [] fn = "ptr_or_propagate"  -> IF some THEN "ptr" ELSE "null"
      [] fn = "propagate"         -> "unit"

\* Error::err_or_else(c_error, f) and err_or_default, which passes
\* Default::default as f: Ok(f()) for None, Err(err) for Some(err).
Error_err_or_else(errs, c_error) ==
    LET o == Option_Error_from_foreign(errs, c_error)
    IN [errs |-> o.errs,
        ret |-> IF o.result.some THEN "Err" ELSE "Ok",
        err |-> IF o.result.some THEN o.result.v ELSE NoError,
        nf |-> IF o.result.some THEN 0 ELSE 1]

\* Messages of the errors that foreign code reports.
ForeignMsgs == {<<>>, Boom}

InitErr ==
    /\ ObjIdle
    /\ layout = NoLayout
    /\ fgn = NoFgn
    /\ ebr = NoEbr
    /\ cls = NoCls
    /\ tyd = NoTyd
    /\ thr = NoThr

\* Error::ok_or_propagate(result, errp), bool_or_propagate, ptr_or_propagate
\* and err.propagate(errp).  errp is null, or points to the error slot of the
\* caller, which holds null or the error an earlier call has written.
Propagate(fn, result, errp_null) ==
    /\ ~ebr.fault
    /\ fn = "propagate" => ~result.ok
    /\ (~result.ok /\ ~errp_null) => FreeErrs(ebr.errs) # {}
    /\ \E o \in (IF fn = "propagate"
                 THEN {[errs |-> q.errs, wrote |-> q.wrote, val |-> q.val,
                        fault |-> q.fault, some |-> FALSE]
                       : q \in Error_propagate(ebr.errs, result.e, errp_null)}
                 ELSE Error_ok_or_propagate(ebr.errs, result, errp_null)) :
         ebr' = [ebr EXCEPT !.errs = o.errs,
                            !.slot = IF o.wrote THEN o.val ELSE @,
                            !.res = [op |-> fn, nf |-> 0,
                                     ret |-> IF o.fault THEN "fault"
                                             ELSE PropagateRet(fn, o.some)],
                            !.fault = o.fault]
    /\ UNCHANGED <<objvars, layout, fgn, cls, tyd, thr>>

\* A fallible foreign call fails: it stores a new foreign error in the error
\* slot it was given.
ForeignFail(m) ==
    /\ ~ebr.fault
    /\ ebr.slot = NULL
    /\ FreeErrs(ebr.errs) # {}
    /\ LET r == error_setg_internal(ebr.errs, m \o <<0>>)
       IN ebr' = [ebr EXCEPT !.errs = r.errs, !.slot = r.x,
                             !.res = [op |-> "foreign_fail", ret |-> "none", nf |-> 0]]
    /\ UNCHANGED <<objvars, layout, fgn, cls, tyd, thr>>

\* Error::err_or_else(c_error, f) / Error::err_or_default(c_error) on the
\* pointer c_error the caller finds in its error slot.
ErrOrElse(fn, c_error) ==
    /\ ~ebr.fault
    /\ c_error = ebr.slot
    /\ LET o == Error_err_or_else(ebr.errs, c_error)
       IN ebr' = [ebr EXCEPT !.errs = o.errs, !.slot = NULL, !.out = o.err,
                             !.res = [op |-> fn, ret |-> o.ret, nf |-> o.nf]]
    /\ UNCHANGED <<objvars, layout, fgn, cls, tyd, thr>>

\* e.clone_to_foreign() on a native error
ErrorCloneToForeign(e) ==
    /\ ~ebr.fault
    /\ ebr.own = -1
    /\ FreeErrs(ebr.errs) # {}
    /\ \E c \in Error_clone_to_foreign(ebr.errs, e) :
         ebr' = [ebr EXCEPT !.errs = c.errs, !.own = c.own, !.src = e,
                            !.out = NoError, !.fault = c.fault,
                            !.res = [op |-> "clone_to_foreign", nf |-> 0,
                                     ret |-> IF c.fault THEN "fault" ELSE "own"]]
    /\ UNCHANGED <<objvars, layout, fgn, cls, tyd, thr>>

\* foreign.into_native() on the OwnedPointer<Error>
ErrorIntoNative ==
    /\ ~ebr.fault
    /\ ebr.own \in ErrAddr
    /\ LET r == Error_from_foreign(ebr.errs, OwnedPointer_into_inner(ebr.own))
       IN ebr' = [ebr EXCEPT !.errs = r.errs, !.own = -1, !.out = r.result,
                             !.res = [op |-> "into_native", ret |-> "native", nf |-> 0]]
    /\ UNCHANGED <<objvars, layout, fgn, cls, tyd, thr>>

\* format!("{}", e) / e.to_string() on a native error
ErrorDisplay(e) ==
    /\ ~ebr.fault
    /\ ebr.own = -1
    /\ ebr' = [ebr EXCEPT !.src = e, !.out = NoError,
                          !.res = [op |-> "fmt", ret |-> Error_fmt(e), nf |-> 0]]
    /\ UNCHANGED <<objvars, layout, fgn, cls, tyd, thr>>

\* The two directions of the bridge: a native result into an error slot, and
\* the content of an error slot into a native result.
NextErr ==
    \/ \E fn \in PropagateFns, result \in Results, errp_null \in BOOLEAN :
         Propagate(fn, result, errp_null)
    \/ \E m \in ForeignMsgs : ForeignFail(m)
    \/ \E fn \in {"err_or_else", "err_or_default"}, c_error \in ErrAddr \cup {NULL} :
         ErrOrElse(fn, c_error)

SpecErr == InitErr /\ [][NextErr]_vars

\* A native error converted to a foreign error and back.
NextErrConv ==
    \/ \E e \in NativeErrors : ErrorDisplay(e)
    \/ \E e \in NativeErrors : ErrorCloneToForeign(e)
    \/ ErrorIntoNative

SpecErrConv == InitErr /\ [][NextErrConv]_vars

\* ------------------- class construction, qom::object_impl, hw::core::device_impl
\* The slots of ObjectClass and the slots DeviceClass adds.
ObjectClassSlots == {"unparent"}
DeviceClassSlots == {"realize", "unrealize", "cold_reset"}

\* The classes that are DeviceState or extend it; their class struct is a
\* DeviceClass.
DeviceClasses == {c \in Classes : "DeviceState" \in Ancestors(c)}

\* The operations a native class can override: those of ObjectImpl, and for a
\* device class also those of DeviceImpl.
SlotsOf(c) ==
    IF c \in DeviceClasses THEN ObjectClassSlots \cup DeviceClassSlots
    ELSE ObjectClassSlots

\* A map that gives the trampoline of T for every constant.
map_trampoline_always(T, impl, op) == T

\* T::UNPARENT.map(|_| rust_unparent::<T> as _), and the same for the other
\* constants: the trampoline of T when the constant is Some, None otherwise.
map_trampoline(T, impl, op) == IF op \in impl THEN T ELSE "none"

\* A class_init that installs the trampoline whether or not the constant is
\* Some.
ObjectClass_class_init_always(k, T, impl) == [k EXCEPT !.unparent = T]

\* ObjectClass::class_init::<T>
ObjectClass_class_init(k, T, impl) ==
    [k EXCEPT !.unparent = map_trampoline(T, impl, "unparent")]

\* A DeviceClass::class_init that ends without self.oc.class_init::<T>().
DeviceClass_class_init_nooc(k, T, impl) ==
    [k EXCEPT !.cold_reset = map_trampoline(T, impl, "cold_reset"),
              !.realize = map_trampoline(T, impl, "realize"),
              !.unrealize = map_trampoline(T, impl, "unrealize"),
              !.properties = T]

\* DeviceClass::class_init::<T>: cold_reset, realize, unrealize, the property
\* table of T, then self.oc.class_init::<T>().
DeviceClass_class_init(k, T, impl) ==
    ObjectClass_class_init(
        [k EXCEPT !.cold_reset = map_trampoline(T, impl, "cold_reset"),
                  !.realize = map_trampoline(T, impl, "realize"),
                  !.unrealize = map_trampoline(T, impl, "unrealize"),
                  !.properties = T],
        T, impl)

\* Object::rust_class_init::<T>
Object_rust_class_init(k, T, impl) == ObjectClass_class_init(k, T, impl)

\* DeviceState::rust_class_init::<T>
DeviceState_rust_class_init(k, T, impl) == DeviceClass_class_init(k, T, impl)

\* TypeImpl::CLASS_INIT of T: <$super>::rust_class_init::<Self>.
CLASS_INIT(k, T, impl) ==
    CASE Super(T) = "Object"      -> Object_rust_class_init(k, T, impl)
      [] Super(T) = "DeviceState" -> DeviceState_rust_class_init(k, T, impl)

\* The class structs of the foreign classes: Object implements none of the
\* operations, DeviceState implements those in fimpl.
ForeignClasses(fimpl) ==
    [c \in Classes |->
        IF c = "DeviceState"
        THEN [EmptyClass EXCEPT !.unparent = IF "unparent" \in fimpl THEN "foreign" ELSE "none",
                                !.realize = IF "realize" \in fimpl THEN "foreign" ELSE "none",
                                !.unrealize = IF "unrealize" \in fimpl THEN "foreign" ELSE "none",
                                !.cold_reset = IF "cold_reset" \in fimpl THEN "foreign" ELSE "none"]
        ELSE EmptyClass]

\* The slot op of class struct k.
Slot(k, op) ==
    CASE op = "unparent"   -> k.unparent
      [] op = "realize"    -> k.realize
      [] op = "unrealize"  -> k.unrealize
      [] op = "cold_reset" -> k.cold_reset

RECURSIVE Dispatch(_, _, _)
\* The implementation of op the runtime uses for class c: the slot of c, or
\* for an empty slot what the parent chain gives.
Dispatch(klass, c, op) ==
    IF c = NoClass THEN "none"
    ELSE IF Slot(klass[c], op) # "none" THEN Slot(klass[c], op)
    ELSE Dispatch(klass, Super(c), op)

\* The native classes whose class struct has been initialised.
Initialised == {T \in NativeClasses : Registered(type_table, TYPE(T))}

\* Each native class declares its overrides (the constants that are Some);
\* the foreign device class implements some of the operations.
InitClass ==
    /\ ObjIdle
    /\ layout = NoLayout
    /\ fgn = NoFgn
    /\ ebr = NoEbr
    /\ tyd = NoTyd
    /\ thr = NoThr
    /\ \E impl \in [NativeClasses -> SUBSET Ops], fimpl \in SUBSET Ops :
         /\ \A T \in NativeClasses : impl[T] \subseteq SlotsOf(T)
         /\ cls = [NoCls EXCEPT !.impl = impl, !.fimpl = fimpl,
                                !.klass = ForeignClasses(fimpl)]

\* The TypeInfo of T is handed to type_register; the runtime allocates the
\* class struct of T and runs the class_init of the TypeInfo, T::CLASS_INIT,
\* on it.
RegisterType(T) ==
    /\ ~Registered(type_table, TYPE(T))
    /\ type_table' = rust_type_register(type_table, T)
    /\ cls' = [cls EXCEPT !.klass[T] = CLASS_INIT(EmptyClass, T, cls.impl[T]),
                          !.disp = [NoDisp EXCEPT !.op = "class_init"]]
    /\ UNCHANGED <<heap, isa, arcs, borrow, last, crashed, layout, fgn, ebr, tyd, thr>>

\* The first statement of rust_unparent::<T>, rust_cold_reset::<T>,
\* rust_realize::<T> and rust_unrealize::<T>: T::UNPARENT.unwrap() and so on.
\* unwrap gives the function of a constant that is Some and panics on None.
trampoline_unwrap(T, impl, op) == IF op \in impl[T] THEN "Some" ELSE "panic"

\* The runtime calls operation op on an instance of class c through the class
\* struct of c.  A trampoline of T that it finds there unwraps the constant
\* of T and calls the function once; a panic ends the call.
CallSlot(c, op) ==
    /\ c \in NativeClasses => c \in Initialised
    /\ op \in SlotsOf(c)
    /\ LET f == Dispatch(cls.klass, c, op) IN
       /\ f # "none"
       /\ cls' = [cls EXCEPT !.disp =
                    IF f \in NativeClasses
                    THEN [NoDisp EXCEPT !.op = op, !.ran = f,
                                        !.ret = trampoline_unwrap(f, cls.impl, op),
                                        !.n = IF trampoline_unwrap(f, cls.impl, op) = "Some"
                                              THEN 1 ELSE 0]
                    ELSE [NoDisp EXCEPT !.op = op, !.ran = f]]
    /\ UNCHANGED <<objvars, layout, fgn, ebr, tyd, thr>>

NextClass ==
    \/ \E T \in NativeClasses : RegisterType(T)
    \/ \E c \in Classes, op \in Ops : CallSlot(c, op)

SpecClass == InitClass /\ [][NextClass]_vars

\* ----------------------------------- virtual calls, hw::core::device
\* The class whose type name is name.
ClassOf(name) == CHOOSE c \in Classes : TYPE(c) = name

\* rust_cold_reset::<T>(obj): T::COLD_RESET.unwrap() is called once, on
\* (&*obj).unsafe_cast::<T>().
rust_cold_reset(T, obj) ==
    [ran |-> T, n |-> 1,
     self |-> ObjectCast_unsafe_cast([ptr |-> obj, ty |-> "DeviceState"], T).ptr]

\* device_cold_reset(obj): the runtime calls what the class of the instance
\* has for cold_reset; a foreign implementation or none runs no native code.
device_cold_reset(klass, hp, obj) ==
    LET impl == Dispatch(klass, ClassOf(hp[obj].type), "cold_reset")
    IN IF impl \in NativeClasses THEN rust_cold_reset(impl, obj)
       ELSE [ran |-> impl, n |-> 0, self |-> -1]

\* A cold_reset that goes by the static type of the reference.
DeviceMethods_cold_reset_static(klass, hp, r) ==
    [ran |-> Dispatch(klass, "DeviceState", "cold_reset"), n |-> 0, self |-> -1]

\* DeviceMethods::cold_reset: device_cold_reset on self.upcast::<DeviceState>().
DeviceMethods_cold_reset(klass, hp, r) ==
    device_cold_reset(klass, hp, ObjectCast_upcast(r, "DeviceState").ptr)

\* rust_realize::<T>(obj, errp): result is what T::REALIZE.unwrap() returned
\* for (&*obj).unsafe_cast::<T>(); it goes through Error::ok_or_propagate.
rust_realize(T, errs, obj, result) ==
    {[errs |-> o.errs, slot |-> IF o.wrote THEN o.val ELSE NULL, fault |-> o.fault,
      ran |-> T, n |-> 1,
      self |-> ObjectCast_unsafe_cast([ptr |-> obj, ty |-> "DeviceState"], T).ptr]
     : o \in Error_ok_or_propagate(errs, result, FALSE)}

\* device_realize(obj, &err): the runtime calls what the class of the
\* instance has for realize.  A foreign implementation succeeds (fm is None)
\* or stores an error with the message fm.v in the slot.
device_realize(klass, hp, obj, errs, result, fm) ==
    LET impl == Dispatch(klass, ClassOf(hp[obj].type), "realize")
    IN IF impl \in NativeClasses THEN rust_realize(impl, errs, obj, result)
       ELSE IF impl = "foreign" /\ fm.some
       THEN {[errs |-> error_setg_internal(errs, fm.v \o <<0>>).errs,
              slot |-> error_setg_internal(errs, fm.v \o <<0>>).x,
              fault |-> FALSE, ran |-> impl, n |-> 0, self |-> -1]}
       ELSE {[errs |-> errs, slot |-> NULL, fault |-> FALSE,
              ran |-> impl, n |-> 0, self |-> -1]}

\* DeviceMethods::realize: err = null_mut(); device_realize(device, &mut err)
\* on self.upcast::<DeviceState>(); Error::err_or_default(err).  No foreign
\* error exists before the call.
DeviceMethods_realize(klass, hp, r, result, fm) ==
    LET device == ObjectCast_upcast(r, "DeviceState")
    IN {IF o.fault
        THEN [NoDisp EXCEPT !.op = "realize", !.ptr = r.ptr, !.ran = o.ran,
                            !.n = o.n, !.self = o.self, !.ret = "fault"]
        ELSE LET q == Error_err_or_else(o.errs, o.slot)
             IN [NoDisp EXCEPT !.op = "realize", !.ptr = r.ptr, !.ran = o.ran,
                               !.n = o.n, !.self = o.self,
                               !.stored = (o.slot # NULL),
                               !.smsg = IF o.slot # NULL THEN o.errs[o.slot].msg ELSE <<>>,
                               !.ret = q.ret,
                               !.msg = IF q.ret = "Err" THEN Error_fmt(q.err) ELSE <<>>,
                               !.nfree = IF o.slot # NULL THEN q.errs[o.slot].nfree ELSE 0]
        : o \in device_realize(klass, hp, device.ptr, NoEbr.errs, result, fm)}

MaxDevices == 1     \* handles to devices alive at the same time

\* The operations a device class of the specification overrides, and those
\* the foreign device class implements.
DeviceOps == {"realize", "cold_reset"}

InitDevice ==
    /\ ObjIdle
    /\ layout = NoLayout
    /\ fgn = NoFgn
    /\ ebr = NoEbr
    /\ tyd = NoTyd
    /\ thr = NoThr
    /\ \E impl \in [NativeClasses -> SUBSET DeviceOps], fimpl \in SUBSET DeviceOps :
         /\ \A T \in NativeClasses : impl[T] \subseteq SlotsOf(T)
         /\ cls = [NoCls EXCEPT !.impl = impl, !.fimpl = fimpl,
                                !.klass = ForeignClasses(fimpl)]

\* The reference in scope can be used for a method of DeviceMethods: its
\* static type is a device type.
CanCallDevice ==
    /\ ~crashed
    /\ borrow # NoBorrow
    /\ IsA(borrow.ref.ty, "DeviceState")

\* r.cold_reset() on the reference in scope
ColdReset ==
    /\ CanCallDevice
    /\ \/ /\ borrow.ref.ptr \in Addr
          /\ LET o == DeviceMethods_cold_reset(cls.klass, heap, borrow.ref)
             IN cls' = [cls EXCEPT !.disp = [NoDisp EXCEPT !.op = "cold_reset",
                                                           !.ptr = borrow.ref.ptr,
                                                           !.ran = o.ran, !.n = o.n,
                                                           !.self = o.self]]
          /\ UNCHANGED <<objvars, layout, fgn, ebr, tyd, thr>>
       \/ NullFault(borrow.ref)

\* r.realize() on the reference in scope.  result is what a native override
\* returns, fm what a foreign implementation does.
Realize(result, fm) ==
    /\ CanCallDevice
    /\ \/ /\ borrow.ref.ptr \in Addr
          /\ \E d \in DeviceMethods_realize(cls.klass, heap, borrow.ref, result, fm) :
               /\ cls' = [cls EXCEPT !.disp =
                            [d EXCEPT !.want = IF d.n > 0 /\ ~result.ok
                                               THEN Error_fmt(result.e) ELSE <<>>]]
               /\ crashed' = (d.ret = "fault")
          /\ UNCHANGED <<heap, type_table, isa, arcs, borrow, last, layout, fgn, ebr, tyd, thr>>
       \/ NullFault(borrow.ref)

NextDevice ==
    \/ \E T \in NativeClasses \cap DeviceClasses : RegisterType(T)
    \/ \E T \in DeviceClasses : NumHandles < MaxDevices /\ New(T)
    \/ \E v \in ArcVals : Borrow(v)
    \/ EndBorrow
    \/ \E U \in Classes : RefUpcast(U)
    \/ ColdReset
    \/ \E result \in Results, fm \in {None} \cup {Some(m) : m \in ForeignMsgs} :
         Realize(result, fm)

SpecDevice == InitDevice /\ [][NextDevice]_vars

\* ------------------------- type definition, qom_define_type! and qdev_prop!
MaxConfFields == 2  \* fields in a conf struct

BoolType == [size |-> 1, align |-> 1]

\* The struct a native class embeds as base: bindings::Object (three
\* pointers, a u32 and a pointer), and bindings::DeviceState, which is an
\* Object.
BaseType(T) ==
    CASE Super(T) = "Object"      -> [size |-> 40, align |-> 8]
      [] Super(T) = "DeviceState" -> [size |-> 40, align |-> 8]

\* The smallest multiple of a that is not below x.
RoundUp(x, a) == ((x + a - 1) \div a) * a

RECURSIVE mem_offset_of(_, _)
\* std::mem::offset_of!(S, field i) for a #[repr(C)] struct S with the given
\* fields.
mem_offset_of(fields, i) ==
    IF i = 1 THEN 0
    ELSE RoundUp(mem_offset_of(fields, i - 1) + size_of(fields[i - 1]),
                 align_of(fields[i]))

RECURSIVE MaxAlign(_)
MaxAlign(fields) ==
    IF Len(fields) = 0 THEN 1
    ELSE LET m == MaxAlign(Tail(fields))
         IN IF align_of(fields[1]) > m THEN align_of(fields[1]) ELSE m

\* A #[repr(C)] struct as a type: mem::size_of and mem::align_of.
StructType(fields) ==
    [size |-> IF Len(fields) = 0 THEN 0
              ELSE RoundUp(mem_offset_of(fields, Len(fields))
                           + size_of(fields[Len(fields)]), MaxAlign(fields)),
     align |-> MaxAlign(fields)]

\* The struct qom_define_type! declares: base: ManuallyDrop<$super>,
\* conf: $conf_ty, state: $state_ty.
qom_define_type_struct(T, conf, state) == <<BaseType(T), StructType(conf), state>>

\* DeviceTypeImpl::CONF_OFFSET = std::mem::offset_of!($struct, conf)
CONF_OFFSET(T, conf, state) == mem_offset_of(qom_define_type_struct(T, conf, state), 2)

\* instance_size: mem::size_of::<T>()
instance_size(T, conf, state) == size_of(StructType(qom_define_type_struct(T, conf, state)))

\* QdevPropBool::convert: *value as u64
QdevPropBool_convert(value) == IF value = "true" THEN 1 ELSE 0

\* A qdev_prop! that stores the offset of the field within the conf struct.
qdev_prop_nooffset(T, conf, state, DEFAULT, default, field) ==
    [offset |-> mem_offset_of(conf, field),
     default |-> QdevPropBool_convert(DEFAULT[field]),
     info |-> "qdev_prop_bool"]

\* qdev_prop!(bool, name, T, default, field): the default of the descriptor
\* is (<conf_type!(T) as ConstDefault>::DEFAULT).field, the offset
\* T::CONF_OFFSET + offset_of!(conf_type!(T), field); the expression default
\* is not used.
qdev_prop(T, conf, state, DEFAULT, default, field) ==
    [offset |-> CONF_OFFSET(T, conf, state) + mem_offset_of(conf, field),
     default |-> QdevPropBool_convert(DEFAULT[field]),
     info |-> "qdev_prop_bool"]

\* An instance_mem_init that leaves conf as the allocator zeroed it.
rust_instance_mem_init_zeroed(mem, conf, DEFAULT) ==
    [mem EXCEPT !.conf = [i \in 1..Len(conf) |->
                            IF conf[i] = BoolType THEN "false" ELSE "0"],
                !.state = "default"]

\* rust_instance_mem_init::<T>: conf is written ConstDefault::DEFAULT, state
\* Default::default().
rust_instance_mem_init(mem, conf, DEFAULT) ==
    [mem EXCEPT !.conf = DEFAULT, !.state = "default"]

\* An instance_finalize for a struct whose base is not in ManuallyDrop.
rust_instance_finalize_base(drops) ==
    [drops EXCEPT !.base = @ + 1, !.conf = @ + 1, !.state = @ + 1]

\* rust_instance_finalize::<T>: drop_in_place(obj) drops conf and state; base
\* is ManuallyDrop and stays.
rust_instance_finalize(drops) ==
    [drops EXCEPT !.conf = @ + 1, !.state = @ + 1]

RECURSIVE object_deinit(_, _)
\* The runtime finalizes an instance of class c: the instance_finalize of c
\* runs, then that of its parent.  The finalize of a foreign class tears
\* down its own struct, which embeds those of its ancestors.
object_deinit(c, drops) ==
    IF c = NoClass THEN drops
    ELSE IF c \in NativeClasses
    THEN object_deinit(Super(c), rust_instance_finalize(drops))
    ELSE [drops EXCEPT !.base = @ + 1]

\* The values of a bool, and the value of a field of another type.
BoolValues == {"true", "false"}

\* The ConstDefault::DEFAULT values a conf struct can have: any bool for a
\* bool field, "0" for a field of another type.
ConfDefaults(conf) ==
    {d \in [1..Len(conf) -> BoolValues \cup {"0"}] :
        \A i \in 1..Len(conf) : (d[i] \in BoolValues) <=> (conf[i] = BoolType)}

\* A native class is declared with qom_define_type! or qdev_define_type!: a
\* conf struct with a bool field that a qdev_prop! names, and a state type.
InitType ==
    /\ ObjIdle
    /\ layout = NoLayout
    /\ fgn = NoFgn
    /\ ebr = NoEbr
    /\ cls = NoCls
    /\ thr = NoThr
    /\ \E T \in NativeClasses, n \in 1..MaxConfFields, state \in FieldTypes,
          arg \in BoolValues :
         \E conf \in [1..n -> FieldTypes], field \in 1..n :
            \E DEFAULT \in ConfDefaults(conf) :
               /\ conf[field] = BoolType
               /\ tyd = [NoTyd EXCEPT !.pc = "declared", !.T = T, !.conf = conf,
                                      !.DEFAULT = DEFAULT, !.state = state,
                                      !.field = field, !.arg = arg]

\* qdev_define_type!(.. @properties [qdev_prop!(bool, name, T, arg, field)]):
\* DeviceTypeImpl::properties() of a device class.  A class that is no
\* device has no property table.
DefineProperties ==
    /\ tyd.pc = "declared"
    /\ tyd' = [tyd EXCEPT !.pc = "defined",
                          !.props = IF tyd.T \in DeviceClasses
                                    THEN <<qdev_prop(tyd.T, tyd.conf, tyd.state,
                                                     tyd.DEFAULT, tyd.arg, tyd.field)>>
                                    ELSE <<>>]
    /\ UNCHANGED <<objvars, layout, fgn, ebr, cls, thr>>

\* The runtime allocates an instance and calls instance_mem_init.
InstanceMemInit ==
    /\ tyd.pc = "defined"
    /\ tyd' = [tyd EXCEPT !.pc = "live",
                          !.mem = rust_instance_mem_init(tyd.mem, tyd.conf, tyd.DEFAULT)]
    /\ UNCHANGED <<objvars, layout, fgn, ebr, cls, thr>>

\* The last reference to the instance goes away: the runtime finalizes it.
InstanceFinalize ==
    /\ tyd.pc = "live"
    /\ tyd' = [tyd EXCEPT !.pc = "finalized", !.drops = object_deinit(tyd.T, tyd.drops)]
    /\ UNCHANGED <<objvars, layout, fgn, ebr, cls, thr>>

NextType ==
    \/ DefineProperties
    \/ InstanceMemInit
    \/ InstanceFinalize

SpecType == InitType /\ [][NextType]_vars

\* ------------------------------------------------- handles in threads
\* Several threads own handles to one instance.  object_ref and object_unref
\* are atomic: each is one step.  What a thread does around the call is a
\* step of its own, so a clone of one thread is interleaved with the clones
\* and drops of the others.
ThreadObj == Min(Addr)

\* The handles the threads own.
Owned == Sum([t \in Threads |-> thr[t].own], Threads)

\* The clones that have taken their reference and not returned their handle.
Cloning == Cardinality({t \in Threads : thr[t].pc = "cloned"})

\* The types registered when an instance of T exists.
ThreadTypes(T) ==
    IF T \in NativeClasses THEN rust_type_register(ForeignTypes, T) ELSE ForeignTypes

\* T::new() has made an instance, and clones of its handle have been handed
\* to the threads.
InitThreads ==
    /\ isa = IsADecl
    /\ borrow = NoBorrow
    /\ last = NoLast
    /\ crashed = FALSE
    /\ layout = NoLayout /\ fgn = NoFgn /\ ebr = NoEbr /\ cls = NoCls /\ tyd = NoTyd
    /\ \E T \in Classes, own \in [Threads -> 0..MaxHandles] :
         \E o \in ObjectClassMethods_new([heap |-> [a \in Addr |-> FreshObj],
                                          nref |-> 0, nunref |-> 0], ThreadTypes(T), T) :
            LET n == Sum(own, Threads) IN
            /\ type_table = ThreadTypes(T)
            /\ ~o.crashed /\ o.arc.ptr = ThreadObj
            /\ n \in 1..MaxHandles
            /\ heap = [o.w.heap EXCEPT ![ThreadObj].ref = n]
            /\ arcs = [v \in ArcVals |-> IF v = o.arc THEN n ELSE 0]
            /\ thr = [t \in Threads |-> [own |-> own[t], pc |-> "idle"]]

\* The value of the handles the threads own.
ThreadArc == CHOOSE v \in ArcVals : v.ptr = ThreadObj /\ (arcs[v] > 0 \/ v.ty = "Object")

\* Thread t calls clone() on a handle it owns: object_ref has returned.
ThreadCloneRef(t) ==
    /\ thr[t].pc = "idle"
    /\ thr[t].own > 0
    /\ Owned + Cloning < MaxHandles
    /\ heap' = Arc_clone(World, ThreadArc).w.heap
    /\ thr' = [thr EXCEPT ![t].pc = "cloned"]
    /\ UNCHANGED <<type_table, isa, arcs, borrow, last, crashed, layout, fgn, ebr, cls, tyd>>

\* clone() returns the new handle to thread t.
ThreadCloneRet(t) ==
    /\ thr[t].pc = "cloned"
    /\ arcs' = Put(arcs, Arc_clone(World, ThreadArc).arc)
    /\ thr' = [thr EXCEPT ![t].pc = "idle", ![t].own = @ + 1]
    /\ UNCHANGED <<heap, type_table, isa, borrow, last, crashed, layout, fgn, ebr, cls, tyd>>

\* Thread t drops a handle it owns: object_unref, which finalizes and frees
\* the instance when the count reaches zero.
ThreadDrop(t) ==
    /\ thr[t].pc = "idle"
    /\ thr[t].own > 0
    /\ heap' = Arc_drop(World, type_table, ThreadArc).heap
    /\ arcs' = Take(arcs, ThreadArc)
    /\ thr' = [thr EXCEPT ![t].own = @ - 1]
    /\ UNCHANGED <<type_table, isa, borrow, last, crashed, layout, fgn, ebr, cls, tyd>>

NextThreads ==
    \E t \in Threads :
       \/ ThreadCloneRef(t)
       \/ ThreadCloneRet(t)
       \/ ThreadDrop(t)

SpecThreads == InitThreads /\ [][NextThreads]_vars

\* ------------------------------------------------------------------ claims
\* The class whose foreign name is the runtime type of the instance at a.
RuntimeClass(a) == CHOOSE c \in Classes : TYPE(c) = heap[a].type

\* The instance at a is a U: its class is U or a descendant of U.
IsInstanceOf(a, U) == U \in Ancestors(RuntimeClass(a))

\* C1: the foreign reference count of every instance equals the number of
\* live owning handles that hold its address; an address that is not a live
\* instance has no handle.
C1_CountEqualsHandles ==
    \A a \in Addr :
        HandlesTo(a) = (IF heap[a].st = "live" THEN heap[a].ref ELSE 0)

\* An instance with two handles, one of which has just been upcast.
C1_Witness ==
    /\ last.op = "arc_upcast"
    /\ last.ptr \in Addr
    /\ heap[last.ptr].ref = 2
    /\ HandlesTo(last.ptr) = 2
    /\ arcs[[ptr |-> last.ptr, ty |-> "Object"]] = 1
    /\ arcs[[ptr |-> last.ptr, ty |-> "DeviceState"]] = 1

\* C2: a clone raises the count of the instance by exactly 1 and leaves it
\* live; a drop lowers it by exactly 1, and frees the instance (finalizing it
\* once) exactly when it was the drop of the last handle.
C2_CloneDropExact ==
    [][\A v \in ArcVals :
         /\ (Live(v) /\ v.ptr \in Addr /\ Clone(v)) =>
              /\ heap'[v.ptr].ref = heap[v.ptr].ref + 1
              /\ heap'[v.ptr].st = "live"
              /\ heap'[v.ptr].fin = 0
         /\ (Live(v) /\ v.ptr \in Addr /\ Drop(v)) =>
              /\ heap'[v.ptr].ref = heap[v.ptr].ref - 1
              /\ heap'[v.ptr].st = "freed" <=> HandlesTo(v.ptr)' = 0
              /\ heap'[v.ptr].st = "live" <=> HandlesTo(v.ptr)' > 0
              /\ heap'[v.ptr].fin = (IF HandlesTo(v.ptr)' = 0 THEN 1 ELSE 0)
      ]_vars

\* A drop that was not the last one: the instance had been cloned, one handle
\* has been dropped and the instance is still live with the handles left.
C2_Witness ==
    /\ last.op = "drop"
    /\ last.ptr \in Addr
    /\ heap[last.ptr].st = "live"
    /\ heap[last.ptr].ref = MaxHandles - 1
    /\ heap[last.ptr].fin = 0

\* C3: for a class defined in Rust, dropping the handle new() has just
\* returned runs the instance finalize hook exactly once and frees the
\* instance.
C3_FinalizeOnce ==
    (last.op = "drop" /\ last.fresh /\ last.ty \in NativeClasses) =>
        /\ last.ptr \in Addr
        /\ heap[last.ptr].st = "freed"
        /\ heap[last.ptr].fin = 1
        /\ heap[last.ptr].hook = 1

\* C4: a dynamic_cast or downcast of a handle to a type U the instance is not
\* an instance of gives Err with the handle it was given: the handles and the
\* instances are as before, no reference-count call was made, the instance is
\* live and its type name is still the name of its class.
C4_FailedCastKeepsHandle ==
    [][\A v \in ArcVals, U \in Classes :
         (/\ Movable(v)
          /\ v.ptr \in Addr
          /\ ~IsInstanceOf(v.ptr, U)
          /\ ArcDynamicCast(v, U) \/ ArcDowncast(v, U)) =>
            /\ ~last'.ok
            /\ arcs' = arcs
            /\ heap' = heap
            /\ last'.nref = 0 /\ last'.nunref = 0
            /\ heap'[v.ptr].st = "live"
            /\ typename(heap', Arc_deref(v)) = TYPE(RuntimeClass(v.ptr))
      ]_vars

\* A dynamic cast of a handle has just failed on a live instance.
C4_Witness ==
    /\ last.op = "arc_dynamic_cast"
    /\ ~last.ok
    /\ last.ptr \in Addr
    /\ heap[last.ptr].st = "live"
    /\ heap[last.ptr].type = "object"
    /\ arcs[[ptr |-> last.ptr, ty |-> "Object"]] = 1

\* C5: a cast of a handle or of a borrowed reference, failed or not, makes no
\* object_ref and no object_unref call and leaves every instance as it was;
\* a cast of a handle leaves the number of handles to each address as it
\* was, a cast of a reference leaves the handles as they were.
C5_CastsMakeNoRefcountCall ==
    [][/\ (/\ ~crashed'
           /\ \E v \in ArcVals, U \in Classes :
                \/ ArcUpcast(v, U) \/ ArcDowncast(v, U)
                \/ ArcDynamicCast(v, U) \/ ArcUnsafeCast(v, U)) =>
             /\ last'.nref = 0 /\ last'.nunref = 0
             /\ heap' = heap
             /\ \A p \in Addr \cup {NULL} : HandlesTo(p)' = HandlesTo(p)
       /\ (\E U \in Classes :
             \/ RefUpcast(U) \/ RefDowncast(U)
             \/ RefDynamicCast(U) \/ RefUnsafeCast(U)) =>
             /\ last'.nref = 0 /\ last'.nunref = 0
             /\ heap' = heap
             /\ arcs' = arcs
      ]_vars

\* A handle to an instance has just been cast with unsafe_cast.
C5_Witness ==
    /\ last.op = "arc_unsafe_cast"
    /\ last.ptr \in Addr
    /\ heap[last.ptr].st = "live"
    /\ heap[last.ptr].ref = 1
    /\ HandlesTo(last.ptr) = 1

\* C6: dynamic_cast (and downcast) to U on a reference to an instance gives a
\* reference if and only if the instance is a U; that reference has the
\* address of the argument and the type U; otherwise the result is None.
C6_DynamicCastIff ==
    [][\A U \in Classes :
         (/\ CanCast
          /\ borrow.ref.ptr \in Addr
          /\ RefDynamicCast(U) \/ RefDowncast(U)) =>
            /\ last'.ok <=> IsInstanceOf(borrow.ref.ptr, U)
            /\ last'.ok => borrow'.ref = [ptr |-> borrow.ref.ptr, ty |-> U]
            /\ ~last'.ok => borrow'.ref = borrow.ref
      ]_vars

\* A reference of type Object to a device instance has been cast to
\* DeviceState with dynamic_cast.
C6_Witness ==
    /\ last.op = "dynamic_cast"
    /\ last.ok
    /\ borrow.from.ty = "Object"
    /\ borrow.ref.ty = "DeviceState"
    /\ borrow.ref.ptr \in Addr
    /\ heap[borrow.ref.ptr].type = "device"

\* C7: for a reference taken from a handle of type A to an instance whose
\* runtime type is A and upcast to B, dynamic_cast back to A succeeds and
\* gives the reference it started from (same address, type A).
C7_UpcastRoundTrip ==
    [][(/\ CanCast
        /\ borrow.via = "upcast"
        /\ borrow.ref.ptr \in Addr
        /\ heap[borrow.ref.ptr].type = TYPE(borrow.from.ty)
        /\ IsA(borrow.from.ty, borrow.ref.ty)
        /\ RefDynamicCast(borrow.from.ty)) =>
          /\ last'.ok
          /\ borrow'.ref = Arc_deref(borrow.from)
      ]_vars

\* A reference to a device instance went to Object with upcast and back to
\* DeviceState with dynamic_cast.
C7_Witness ==
    /\ borrow.via = "roundtrip"
    /\ borrow.from.ty = "DeviceState"
    /\ borrow.mid = "Object"
    /\ borrow.ref = Arc_deref(borrow.from)
    /\ heap[borrow.ref.ptr].type = "device"

\* C8: the declared IsA relation is reflexive and transitive on the classes,
\* and relates a class only to the classes in its parent chain.
C8_IsAReflexiveTransitive ==
    /\ \A a \in Classes : IsA(a, a)
    /\ \A a \in Classes, b \in Classes, c \in Classes :
         (IsA(a, b) /\ IsA(b, c)) => IsA(a, c)
    /\ \A p \in isa : p[1] \in Classes /\ p[2] \in Ancestors(p[1])

\* A chain of three classes: transitivity has a case that is not reflexive.
C8_Witness ==
    /\ IsA("TestDevice", "DeviceState")
    /\ IsA("DeviceState", "Object")
    /\ IsA("TestDevice", "Object")
    /\ <<"TestDevice", "TestObject">> \notin isa

\* C9: when new() is called for a class defined in Rust, the type descriptor
\* of the class has been registered with the runtime.
C9_RegisteredBeforeNew ==
    (last.op = "new" /\ last.ty \in NativeClasses) =>
        Registered(type_table, TYPE(last.ty))

\* C10: every owning handle holds a non-null address, and a new() that was
\* handed a null pointer has stopped the process.
C10_NullIsFatal ==
    /\ \A v \in ArcVals : Live(v) => v.ptr # NULL
    /\ (last.op = "new" /\ last.ptr = NULL) => crashed

\* The smallest multiple of a that is greater than or equal to x.
NextMultiple(x, a) ==
    CHOOSE m \in x..(x + a) : m % a = 0 /\ \A k \in x..(m - 1) : k % a # 0

\* A parent struct of size 8 followed by a u32, a u8 and a u64.
C18_Example ==
    <<[size |-> 8, align |-> 8], [size |-> 4, align |-> 4],
      [size |-> 1, align |-> 1], [size |-> 8, align |-> 8]>>

\* C18: the offset computed for the first field is 0; the offset of every
\* later field is the smallest multiple of its alignment that is not below
\* the previous field's offset plus the previous field's size, the fields
\* taken in declaration order; for a parent of size 8 followed by fields of
\* (size, alignment) (4,4), (1,1), (8,8) the offsets are 0, 8, 12, 16.
C18_OffsetsInDeclarationOrder ==
    /\ \A i \in 1..Len(layout.offset_to) :
         layout.offset_to[i] =
            IF i = 1 THEN 0
            ELSE NextMultiple(layout.offset_to[i - 1] + size_of(layout.fields[i - 1]),
                              align_of(layout.fields[i]))
    /\ (layout.fields = C18_Example /\ Len(layout.offset_to) = 4) =>
         layout.offset_to = <<0, 8, 12, 16>>

\* The example struct has been laid out: the u64 went from 13 up to 16.
C18_Witness ==
    /\ layout.fields = C18_Example
    /\ layout.offset_to = <<0, 8, 12, 16>>
    /\ layout.END_OF_PREV_FIELD = 24

\* C19: clone_to_foreign on an optional value returns: for None with an
\* owning wrapper that holds the null pointer, for Some(s) with a wrapper
\* that holds the foreign copy of s; the call never runs out of stack.
C19_OptionCloneCompletes ==
    fgn.val.kind = "Option" =>
        /\ fgn.pc # "overflow"
        /\ (fgn.pc = "owned" /\ ~fgn.val.some) => fgn.own = NULL
        /\ (fgn.pc = "owned" /\ fgn.val.some) =>
              /\ fgn.own # NULL
              /\ fgn.mem.st = "live"
              /\ fgn.mem.bytes = fgn.val.s \o <<0>>

\* C20 as stated: every String, also one that contains a zero byte, comes
\* back equal from clone_to_foreign followed by a conversion back.
C20_RoundTripAnyString ==
    (fgn.val.kind = "String" /\ fgn.pc = "done") => fgn.out = fgn.val.s

HasZeroByte(s) == \E i \in 1..Len(s) : s[i] = 0

\* C20, amended: every String that contains no zero byte, the empty String
\* included, comes back equal from clone_to_foreign followed by
\* OwnedPointer::into_native, String::from_foreign or into_native on the raw
\* pointer.
C20_RoundTripNoZeroByte ==
    (fgn.val.kind = "String" /\ fgn.pc = "done" /\ ~HasZeroByte(fgn.val.s)) =>
        fgn.out = fgn.val.s

\* A String of two characters went to a C string and back, and the C string
\* has been freed.
C20_Witness ==
    /\ fgn.val.kind = "String"
    /\ fgn.pc = "done"
    /\ fgn.val.s = <<1, 2>>
    /\ fgn.out = <<1, 2>>
    /\ fgn.mem.st = "freed"

\* C14: ok_or_propagate, and bool_or_propagate, ptr_or_propagate and
\* propagate built on it, write the error slot if and only if the result is
\* an error and the slot pointer is not null.  On success, and on failure
\* with a null slot pointer, nothing is written, no foreign error is created
\* and the call does not crash; on failure with a slot the call does not
\* crash and the slot receives a newly created foreign error whose message
\* is the Display text of the native error.
C14_PropagateWritesSlot ==
    [][\A fn \in PropagateFns, result \in Results, errp_null \in BOOLEAN :
         Propagate(fn, result, errp_null) =>
            /\ ~ebr'.fault
            /\ (ebr'.slot # ebr.slot) <=> (~result.ok /\ ~errp_null)
            /\ (result.ok \/ errp_null) => ebr'.errs = ebr.errs
            /\ (~result.ok /\ ~errp_null) =>
                  /\ ebr'.slot \in ErrAddr
                  /\ ebr.errs[ebr'.slot].st = "unalloc"
                  /\ ebr'.errs[ebr'.slot].st = "live"
                  /\ ebr'.errs[ebr'.slot].msg = Error_fmt(result.e)
      ]_vars

\* C15: err_or_else / err_or_default on a foreign error pointer return Ok,
\* with f called exactly once, if and only if the pointer is null; for a
\* non-null pointer they return Err with the message of the foreign error,
\* f is not called, and the foreign error has been released exactly once.
C15_ErrOrElseIffNull ==
    [][\A fn \in {"err_or_else", "err_or_default"}, c_error \in ErrAddr \cup {NULL} :
         ErrOrElse(fn, c_error) =>
            /\ (ebr'.res.ret = "Ok") <=> (c_error = NULL)
            /\ c_error = NULL =>
                  /\ ebr'.res.nf = 1
                  /\ ebr'.errs = ebr.errs
            /\ c_error # NULL =>
                  /\ ebr'.res.ret = "Err"
                  /\ ebr'.res.nf = 0
                  /\ ebr'.out = [msg |-> Some(ebr.errs[c_error].msg),
                                 cause |-> None, location |-> None]
                  /\ ebr'.errs[c_error].st = "freed"
                  /\ ebr'.errs[c_error].nfree = 1
                  /\ \A a \in ErrAddr \ {c_error} : ebr'.errs[a] = ebr.errs[a]
      ]_vars

\* err_or_default has turned a foreign error with the message "boom" into
\* Err("boom") and released it.
C15_Witness ==
    /\ ebr.res.op = "err_or_default"
    /\ ebr.res.ret = "Err"
    /\ ebr.out.msg = Some(Boom)
    /\ ebr.slot = NULL
    /\ \E a \in ErrAddr : ebr.errs[a].st = "freed" /\ ebr.errs[a].nfree = 1

\* sub occurs in text as a run of consecutive bytes.
Contains(text, sub) ==
    \E i \in 1..(Len(text) + 1) :
        /\ i + Len(sub) - 1 <= Len(text)
        /\ SubSeq(text, i, i + Len(sub) - 1) = sub

\* C16: a native error e converted with clone_to_foreign and back with
\* into_native gives a native error whose Display text contains the message
\* of e and equals the Display text of e.
C16_RoundTripDisplay ==
    ebr.res.op = "into_native" =>
        /\ Error_fmt(ebr.out) = Error_fmt(ebr.src)
        /\ ebr.src.msg.some => Contains(Error_fmt(ebr.out), ebr.src.msg.v)

\* C11: after class initialisation of a native class T every overridable
\* slot holds the trampoline of T if and only if T declares an override for
\* the operation; a slot without an override holds no native trampoline.
C11_SlotIffOverride ==
    \A T \in Initialised, op \in Ops :
        /\ (Slot(cls.klass[T], op) = T) <=> (op \in cls.impl[T])
        /\ (op \notin cls.impl[T]) => Slot(cls.klass[T], op) = "none"

\* A device class that overrides unparent, realize and unrealize but not
\* cold_reset has been initialised.
C11_Witness ==
    /\ "TestDevice" \in Initialised
    /\ cls.impl["TestDevice"] = {"unparent", "realize", "unrealize"}
    /\ cls.klass["TestDevice"].unparent = "TestDevice"
    /\ cls.klass["TestDevice"].realize = "TestDevice"
    /\ cls.klass["TestDevice"].cold_reset = "none"

\* C12: class initialisation of a native class constructs the slots of every
\* ancestor class for it as well (an override of an ancestor's operation is
\* installed), and an operation the class does not override is dispatched to
\* what its parent dispatches it to: to the parent's implementation where
\* the parent has one.
C12_InheritsParentSlots ==
    \A T \in Initialised :
        /\ \A op \in cls.impl[T] : Dispatch(cls.klass, T, op) = T
        /\ \A op \in Ops \ cls.impl[T] :
              /\ Dispatch(cls.klass, T, op) = Dispatch(cls.klass, Super(T), op)
              /\ (op \in cls.fimpl /\ Super(T) = "DeviceState") =>
                    Dispatch(cls.klass, T, op) = "foreign"

\* A device class that overrides cold_reset only has been initialised, and
\* its unparent goes to the implementation of the foreign device class.
C12_Witness ==
    /\ "TestDevice" \in Initialised
    /\ cls.impl["TestDevice"] = {"cold_reset"}
    /\ "unparent" \in cls.fimpl
    /\ cls.klass["TestDevice"].cold_reset = "TestDevice"
    /\ Dispatch(cls.klass, "TestDevice", "unparent") = "foreign"

\* The reference in scope is a DeviceState-typed reference made by upcasting
\* a reference to a live instance of the native class T, which overrides
\* cold_reset and has been registered.
UpcastOfDerived(T) ==
    /\ borrow.via = "upcast"
    /\ borrow.ref.ty = "DeviceState"
    /\ borrow.from.ty = T
    /\ borrow.ref.ptr \in Addr
    /\ heap[borrow.ref.ptr].type = TYPE(T)
    /\ "cold_reset" \in cls.impl[T]

\* C13: cold_reset on a base-typed reference obtained by upcasting an
\* instance of a native class that overrides cold_reset runs that class's
\* override exactly once, on the same instance.
C13_VirtualColdReset ==
    [][\A T \in NativeClasses :
          (ColdReset /\ UpcastOfDerived(T)) =>
              /\ cls'.disp.op = "cold_reset"
              /\ cls'.disp.ran = T
              /\ cls'.disp.n = 1
              /\ cls'.disp.self = borrow.from.ptr]_vars

\* cold_reset has been called on the upcast reference and the override of
\* TestDevice has run, in a configuration where the foreign device class has
\* a cold_reset of its own.
C13_Witness ==
    /\ UpcastOfDerived("TestDevice")
    /\ "cold_reset" \in cls.fimpl
    /\ cls.disp.op = "cold_reset"
    /\ cls.disp.ran = "TestDevice"
    /\ cls.disp.n = 1

\* C17: realize returns Err exactly when the foreign call stored an error,
\* with that error's message; when a native REALIZE override ran and returned
\* Err(e) the caller gets Err with the Display text of e, when it returned Ok
\* the caller gets Ok; a failure is never turned into Ok.
C17_RealizeResult ==
    [][\A result \in Results, fm \in {None} \cup {Some(m) : m \in ForeignMsgs} :
          (Realize(result, fm) /\ borrow.ref.ptr \in Addr) =>
              LET d == cls'.disp IN
              /\ (d.ret = "Err") <=> d.stored
              /\ d.ret = "Err" => d.msg = d.smsg
              /\ (d.n > 0 /\ ~result.ok) =>
                    (d.ret = "Err" /\ d.msg = Error_fmt(result.e))
              /\ (d.n > 0 /\ result.ok) => d.ret = "Ok"
              /\ (d.ran = "foreign" /\ fm.some) => d.ret = "Err"]_vars

\* The operations that release the buffer: drop of the wrapper, into_native
\* on the wrapper or on the raw pointer, from_foreign on the raw pointer.
ReleasingOp ==
    \/ OwnedPointerDrop
    \/ OwnedPointerIntoNative
    \/ StringFromForeign
    \/ PtrIntoNative

\* The operations that leave the buffer alone.
KeepingOp ==
    \/ OwnedPointerAsPtr
    \/ \E U \in CharTypes : OwnedPointerFrom(U)
    \/ OwnedPointerIntoInner
    \/ ClonedFromForeign

\* C21: the buffer clone_to_foreign made is released at most once: exactly
\* once by a drop of the wrapper, by into_native and by from_foreign, and not
\* by as_ptr, as_mut_ptr, from, into, into_inner or cloned_from_foreign,
\* after which the buffer is still live with its content.
C21_ReleasedAtMostOnce ==
    /\ [](fgn.mem.nfree <= 1)
    /\ [][/\ ReleasingOp =>
               /\ fgn.mem.st = "live"
               /\ fgn'.mem.st = "freed"
               /\ fgn'.mem.nfree = fgn.mem.nfree + 1
          /\ KeepingOp =>
               /\ fgn'.mem = fgn.mem
               /\ fgn'.mem.st = "live"
               /\ fgn'.own = fgn.own]_vars

\* A wrapper was passed through as_ptr, cloned_from_foreign, into and
\* into_inner, and from_foreign then released the buffer.
C21_Witness ==
    /\ fgn.pc = "done"
    /\ fgn.ptr = 1
    /\ fgn.ncopy = 1
    /\ fgn.ty = "str"
    /\ fgn.val.s = <<1, 2>>
    /\ fgn.mem.st = "freed"
    /\ fgn.mem.nfree = 1

\* C22: for Option<String>, cloned_from_foreign and from_foreign return None
\* exactly for a null pointer and for any other pointer Some of the String
\* conversion of it; borrow_foreign gives a null pointer for None and for
\* Some(s) the pointer of the borrow of s, which leads to the bytes of s and
\* a NUL.
C22_OptionNullIffNone ==
    /\ fgn.pc \in {"cloned", "taken"} =>
          /\ (fgn.oout = None) <=> (fgn.ptr = NULL)
          /\ fgn.ptr # NULL =>
                fgn.oout = Some(from_utf8_lossy(CStr_to_bytes(fgn.mem.bytes)))
          /\ (fgn.pc = "cloned" /\ fgn.val.some) => fgn.oout = Some(fgn.val.s)
    /\ fgn.pc \in {"borrowed", "cloned"} =>
          /\ (fgn.ptr = NULL) <=> ~fgn.val.some
          /\ fgn.val.some =>
                /\ fgn.ptr = String_borrow_foreign(fgn.val.s).ptr
                /\ fgn.mem.bytes = fgn.val.s \o <<0>>

\* Some(s) was borrowed, to a pointer that is not null, and
\* cloned_from_foreign on that pointer gave Some(s).
C22_Witness ==
    /\ fgn.pc = "cloned"
    /\ fgn.val.some
    /\ fgn.val.s = <<1, 2>>
    /\ fgn.ptr # NULL
    /\ fgn.oout = Some(<<1, 2>>)

\* The parts of an error that are present, in the order location, message,
\* cause, each as text.
Parts(e) ==
    (IF e.location.some
     THEN <<e.location.v[1] \o <<58>> \o itoa(e.location.v[2])>> ELSE <<>>)
    \o (IF e.msg.some THEN <<e.msg.v>> ELSE <<>>)
    \o (IF e.cause.some THEN <<e.cause.v>> ELSE <<>>)

RECURSIVE JoinParts(_)
\* The texts of ps with ": " between them.
JoinParts(ps) ==
    IF Len(ps) = 0 THEN <<>>
    ELSE IF Len(ps) = 1 THEN ps[1]
    ELSE ps[1] \o ColonSpace \o JoinParts(Tail(ps))

\* C23: the Display text of an Error is its present parts among file:line,
\* message and cause, in that order, joined by ": "; it is "unknown error"
\* exactly when all three are absent; with_file_line gives "file:line: msg"
\* and with_error_file_line gives "file:line: msg: cause".
C23_DisplayJoinsParts ==
    /\ ebr.res.op = "fmt" =>
          /\ Parts(ebr.src) # <<>> => ebr.res.ret = JoinParts(Parts(ebr.src))
          /\ (ebr.res.ret = UnknownError) <=> (Parts(ebr.src) = <<>>)
    /\ Error_fmt(Error_with_file_line(Boom, FileName, 42))
          = FileName \o <<58, 52, 50>> \o ColonSpace \o Boom
    /\ Error_fmt(Error_with_error_file_line(Boom, IoText, FileName, 42))
          = FileName \o <<58, 52, 50>> \o ColonSpace \o Boom \o ColonSpace \o IoText
    /\ Error_fmt(Error_with_error(Boom, IoText)) = Boom \o ColonSpace \o IoText
    /\ Error_fmt(Error_from_str(Boom)) = Boom
    /\ Error_fmt(Error_from_io(IoText)) = IoText

\* The text of an error with a location, a message and a cause has been
\* formatted.
C23_Witness ==
    /\ ebr.res.op = "fmt"
    /\ ebr.src = Error_with_error_file_line(Boom, IoText, FileName, 42)
    /\ ebr.res.ret = <<102, 58, 52, 50, 58, 32, 98, 111, 111, 109, 58, 32, 105, 111>>

\* C24: the offset in the property descriptor of field f is the offset of
\* conf within the instance plus the offset of f within the conf struct; it
\* is not below the size of the embedded parent struct, it lies inside the
\* conf member, and the bytes of f end within the instance size.
C24_PropertyOffsetInsideInstance ==
    \A i \in 1..Len(tyd.props) :
        LET struct == qom_define_type_struct(tyd.T, tyd.conf, tyd.state)
            conf_at == NextMultiple(size_of(struct[1]), align_of(struct[2]))
            f_at == IF tyd.field = 1 THEN 0
                    ELSE NextMultiple(mem_offset_of(tyd.conf, tyd.field - 1)
                                      + size_of(tyd.conf[tyd.field - 1]),
                                      align_of(tyd.conf[tyd.field]))
        IN /\ tyd.props[i].offset = conf_at + f_at
           /\ tyd.props[i].offset >= size_of(BaseType(tyd.T))
           /\ tyd.props[i].offset + size_of(tyd.conf[tyd.field])
                 <= conf_at + size_of(struct[2])
           /\ tyd.props[i].offset + size_of(tyd.conf[tyd.field])
                 <= instance_size(tyd.T, tyd.conf, tyd.state)

\* The property of a device class is on the second field of its conf, a bool
\* after a 4-byte field, and its descriptor holds offset 40 + 4.
C24_Witness ==
    /\ tyd.pc = "defined"
    /\ tyd.T = "TestDevice"
    /\ tyd.conf = <<[size |-> 4, align |-> 4], BoolType>>
    /\ tyd.field = 2
    /\ Len(tyd.props) = 1
    /\ tyd.props[1].offset = 44

\* C29: when an instance of a native class is finalized, the finalize hook
\* of the class tears down conf and state once and leaves the embedded
\* parent struct, which the parent's finalize tears down: over the chain
\* every member is torn down exactly once.
C29_MembersTornDownOnce ==
    /\ tyd.pc = "finalized" =>
          tyd.drops = [base |-> 1, conf |-> 1, state |-> 1]
    /\ tyd.pc \in {"declared", "defined", "live"} =>
          tyd.drops = [base |-> 0, conf |-> 0, state |-> 0]
    /\ [base |-> tyd.drops.base, conf |-> tyd.drops.conf + 1,
        state |-> tyd.drops.state + 1] = rust_instance_finalize(tyd.drops)

\* An instance of TestDevice, whose members had been initialised, has been
\* finalized.
C29_Witness ==
    /\ tyd.pc = "finalized"
    /\ tyd.T = "TestDevice"
    /\ tyd.mem.state = "default"
    /\ tyd.drops.conf = 1
    /\ tyd.drops.base = 1

\* C30: the default in the property descriptor of field f is the value
\* instance_mem_init writes into field f of a new instance's conf, whatever
\* default expression qdev_prop! was given: 1 for true and 0 for false.
C30_DefaultMatchesMemInit ==
    tyd.pc = "live" =>
        \A i \in 1..Len(tyd.props) :
            /\ tyd.mem.conf[tyd.field] = "true" => tyd.props[i].default = 1
            /\ tyd.mem.conf[tyd.field] = "false" => tyd.props[i].default = 0
            /\ tyd.mem.conf[tyd.field] \in BoolValues

\* A device class whose conf default for the field is false was given the
\* default expression true, as in tests/main.rs; the descriptor says 0 and a
\* new instance has false.
C30_Witness ==
    /\ tyd.pc = "live"
    /\ tyd.T = "TestDevice"
    /\ tyd.conf = <<BoolType>>
    /\ tyd.arg = "true"
    /\ tyd.DEFAULT = <<"false">>
    /\ tyd.props[1].default = 0
    /\ tyd.mem.conf = <<"false">>

\* C26: new() wraps the freshly allocated instance, whose count is 1, with
\* from_raw and makes no call of the increment primitive; Arc::from on a
\* borrowed reference calls it exactly once; either way the new handle has
\* the address it was given.
C26_FromRawVersusFrom ==
    [][/\ \A T \in Classes :
            (New(T) /\ ~crashed' /\ last'.ptr \in Addr) =>
                /\ last'.nref = 0
                /\ heap[last'.ptr].st = "unalloc"
                /\ heap'[last'.ptr].ref = 1
                /\ arcs' = Put(arcs, [ptr |-> last'.ptr, ty |-> T])
       /\ (ArcFrom /\ ~crashed' /\ borrow.ref.ptr \in Addr) =>
                /\ last'.nref = 1
                /\ heap'[borrow.ref.ptr].ref = heap[borrow.ref.ptr].ref + 1
                /\ arcs' = Put(arcs, [ptr |-> borrow.ref.ptr, ty |-> borrow.ref.ty])
      ]_vars

\* Arc::from has made a second handle from a reference borrowed from the
\* handle new() returned: the count went from 1 to 2 with one increment.
C26_Witness ==
    /\ last.op = "arc_from"
    /\ last.nref = 1
    /\ last.ptr \in Addr
    /\ heap[last.ptr].ref = 2
    /\ HandlesTo(last.ptr) = 2

\* C25: with object_ref and object_unref atomic, under every interleaving of
\* the clones and drops of several threads, each on handles it owns to the same
\* instance, the instance is finalized and freed exactly once, at the drop
\* of the last live handle, and no thread owns a handle to a freed instance.
C25_FreedOnceAtLastDrop ==
    /\ heap[ThreadObj].fin <= 1
    /\ (heap[ThreadObj].st = "freed") <=> (heap[ThreadObj].fin = 1)
    /\ (heap[ThreadObj].st = "freed") <=> (Owned = 0)
    /\ heap[ThreadObj].hook <= heap[ThreadObj].fin
    /\ heap[ThreadObj].st = "live" => heap[ThreadObj].ref = Owned + Cloning
    /\ \A t \in Threads :
         (thr[t].own > 0 \/ thr[t].pc = "cloned") => heap[ThreadObj].st = "live"

\* One thread is inside clone() when another thread drops its last handle:
\* the instance stays live.
C25_Witness ==
    \E t, u \in Threads :
       /\ t # u
       /\ thr[t].pc = "cloned" /\ thr[t].own = 1
       /\ thr[u].own = 0 /\ thr[u].pc = "idle"
       /\ heap[ThreadObj].st = "live" /\ heap[ThreadObj].ref = 2
       /\ arcs[ThreadArc] = 1

\* C27: every foreign error the error bridge created has exactly one owner,
\* the error slot it was written to or the wrapper that holds it, until it
\* is released, and it is released exactly once: over any sequence of
\* propagate calls into an error slot and err_or_else calls no foreign error
\* is left live without an owner and none is released twice.
C27_OneOwnerReleasedOnce ==
    \A a \in ErrAddr :
       /\ ebr.errs[a].nfree <= 1
       /\ ebr.errs[a].st = "live" => (ebr.slot = a) # (ebr.own = a)
       /\ ebr.errs[a].st = "freed" => (ebr.slot # a /\ ebr.own # a /\ ebr.errs[a].nfree = 1)

\* C28: a trampoline (rust_unparent, rust_cold_reset, rust_realize,
\* rust_unrealize) is in a class struct only where class_init put it, in the
\* slot of its operation in the class struct of its own class T and because
\* the constant of T is Some; so the unwrap in a trampoline that the runtime
\* reaches through a slot never fails.
C28_TrampolineUnwrapsSome ==
    /\ \A c \in Classes, op \in Ops :
          Slot(cls.klass[c], op) \in NativeClasses =>
             /\ Slot(cls.klass[c], op) = c
             /\ c \in Initialised
             /\ op \in cls.impl[c]
    /\ cls.disp.ret # "panic"
    /\ cls.disp.ran \in NativeClasses =>
          /\ cls.disp.op \in cls.impl[cls.disp.ran]
          /\ cls.disp.ret = "Some"
          /\ cls.disp.n = 1

\* The runtime has reached rust_unrealize of TestDevice, a class that
\* overrides unrealize and leaves cold_reset and unparent alone.
C28_Witness ==
    /\ cls.disp.op = "unrealize"
    /\ cls.disp.ran = "TestDevice"
    /\ cls.disp.ret = "Some"
    /\ cls.klass["TestDevice"].cold_reset = "none"
    /\ cls.klass["TestDevice"].unparent = "none"
    /\ "TestObject" \in Initialised
====
